---- MODULE Spec2Model ----
(***************************************************************************)
(* Model of src/systems/generation/promptBuilder.js of the RPG Companion   *)
(* extension: the field value resolver (getValue), the historical tracker  *)
(* formatter (formatHistoricalTrackerData) and the construction of the     *)
(* context injection map in generateSeparateUpdatePrompt.                  *)
(*                                                                         *)
(* JavaScript values are records [t, s, n, keys, items]:                   *)
(*   t     "undef" | "null" | "str" | "num" | "bool" | "arr" | "obj"       *)
(*   s     the text of a string, a sequence of tokens                      *)
(*   n     the number (0/1 for a boolean)                                  *)
(*   keys  the own keys of an object, in Object.entries order              *)
(*   items the elements of an array, or the values of an object's keys     *)
(* JavaScript strings are sequences of tokens: every separator character   *)
(* the code writes is a token of its own, every word is one token, so two  *)
(* token sequences are equal exactly when the strings are.                 *)
(***************************************************************************)
EXTENDS Integers, Sequences, FiniteSets, TLC

VARIABLES
    field,          \* resolver: the field value handed to getValue
    resolved,       \* resolver: getValue(field) of formatTrackerDataForContext
    resolvedHist,   \* resolver: getValue(field) of formatHistoricalTrackerData
    settings,       \* extensionSettings.trackerConfig
    name1,          \* getContext().name1
    histData,       \* historical formatter: the trackerData argument
    histUseAll,     \* historical formatter: the useAllEnabled argument
    histOut,        \* historical formatter: the string returned
    chat,           \* the chat: the transcript's messages
    updateDepth,    \* extensionSettings.updateDepth
    historyPersistence, \* extensionSettings.historyPersistence
    pc,             \* generateSeparateUpdatePrompt: "idle", "awaiting", "done"
    locals,         \* its constants read before the await
    recentMessages, \* its window of the chat
    contextInjectionMap, \* its map from window index to context text
    messages,       \* the array it returns
    lastRun,        \* the inputs and the map of the run before
    ctxData,        \* contextual formatter: the jsonData argument
    ctxType,        \* contextual formatter: the trackerType argument
    ctxOut,         \* contextual formatter: the string returned, or the throw
    extensionSettings, \* the fields generateTrackerInstructions reads
    jsonHelpers,    \* what the functions of jsonPromptHelpers.js return
    instrArgs,      \* generateTrackerInstructions: its three arguments
    instructions,   \* generateTrackerInstructions: the string returned
    committedTrackerData, \* the committed payloads of the three categories
    promptText,     \* generateRPGPromptText: the <previous> section it writes
    example,        \* generateTrackerExample: the string returned
    weatherSettings, \* enableDynamicWeather, weatherForeground, weatherBackground
    infoBoxData,    \* lastGeneratedData.infoBox || committedTrackerData.infoBox
    weatherContainer, \* weatherEffects.js: the element of the current effect
    currentWeatherType, \* weatherEffects.js: the cached weather type
    currentTimeOfDay, \* weatherEffects.js: the cached time of day
    currentHour,    \* weatherEffects.js: the cached hour
    body,           \* document.body: the weather elements attached to it
    weatherCall     \* the call of weatherEffects.js that returned last, if any

resolveVars == <<field, resolved, resolvedHist>>
histVars == <<histData, histUseAll, histOut>>
settingsVars == <<settings, name1>>
chatVars == <<chat, updateDepth, historyPersistence>>
runVars == <<pc, locals, recentMessages, contextInjectionMap, messages, lastRun>>
ctxVars == <<ctxData, ctxType, ctxOut>>
instrVars == <<extensionSettings, jsonHelpers, instrArgs, instructions>>
prevVars == <<committedTrackerData, promptText, example>>
weatherVars == <<weatherSettings, infoBoxData, weatherContainer, currentWeatherType,
                 currentTimeOfDay, currentHour, body, weatherCall>>
vars == <<field, resolved, resolvedHist, settings, name1,
          histData, histUseAll, histOut, chat, updateDepth, historyPersistence,
          pc, locals, recentMessages, contextInjectionMap, messages, lastRun,
          ctxData, ctxType, ctxOut, extensionSettings, jsonHelpers, instrArgs,
          instructions, committedTrackerData, promptText, example,
          weatherSettings, infoBoxData, weatherContainer, currentWeatherType,
          currentTimeOfDay, currentHour, body, weatherCall>>

----------------------------------------------------------------------------
(* JavaScript values *)

JUndef == [t |-> "undef", s |-> <<>>, n |-> 0, keys |-> <<>>, items |-> <<>>]
JNull == [t |-> "null", s |-> <<>>, n |-> 0, keys |-> <<>>, items |-> <<>>]
JStr(txt) == [t |-> "str", s |-> txt, n |-> 0, keys |-> <<>>, items |-> <<>>]
Str(tok) == JStr(<<tok>>)
Num(k) == [t |-> "num", s |-> <<>>, n |-> k, keys |-> <<>>, items |-> <<>>]
Bool(b) == [t |-> "bool", s |-> <<>>, n |-> IF b THEN 1 ELSE 0, keys |-> <<>>, items |-> <<>>]
Arr(xs) == [t |-> "arr", s |-> <<>>, n |-> 0, keys |-> <<>>, items |-> xs]
Obj(ks, xs) == [t |-> "obj", s |-> <<>>, n |-> 0, keys |-> ks, items |-> xs]

\* const x = v: Only({F(x) : x \in {v}}) evaluates v once and F reads its value
Only(S) == CHOOSE r \in S : TRUE

\* field === null || field === undefined
IsNullish(v) == v.t \in {"undef", "null"}
\* typeof v === 'object' (true of null, arrays and objects)
TypeofObject(v) == v.t \in {"null", "arr", "obj"}
\* Array.isArray(v)
IsArray(v) == v.t = "arr"
\* JavaScript truthiness
Truthy(v) ==
    CASE v.t = "str" -> v.s # <<>>
      [] v.t = "num" -> v.n # 0
      [] v.t = "bool" -> v.n = 1
      [] v.t \in {"arr", "obj"} -> TRUE
      [] OTHER -> FALSE

\* 'k' in v, for v an object
Has(v, k) == v.t = "obj" /\ \E i \in 1..Len(v.keys) : v.keys[i] = k
\* v.k (v[k]) where v is not null or undefined: the own property, or undefined
Get(v, k) ==
    IF Has(v, k)
    THEN v.items[CHOOSE i \in 1..Len(v.keys) : v.keys[i] = k]
    ELSE JUndef

----------------------------------------------------------------------------
(* Strings *)

RECURSIVE Concat(_, _)
Concat(parts, i) ==
    IF i > Len(parts) THEN <<>> ELSE parts[i] \o Concat(parts, i + 1)
\* The concatenation of a sequence of strings.
Flatten(parts) == Only({Concat(ps, 1) : ps \in {parts}})

\* Array.prototype.join on strings.
Join(parts, sep) ==
    Only({ IF ps = <<>> THEN <<>>
           ELSE ps[1] \o Concat([i \in 1..(Len(ps) - 1) |-> sep \o ps[i + 1]], 1) :
           ps \in {parts} })

\* .filter(Boolean) / .filter(s => s) on an array of strings
NonEmpty(parts) == SelectSeq(parts, LAMBDA p : p # <<>>)

CommaSp == <<",", " ">>
DashSp == <<" ", "-", " ">>
ColonSp == <<":", " ">>
Whitespace == {" ", "\n"}

\* The positions of str that hold no whitespace.
Inked(str) == {i \in 1..Len(str) : str[i] \notin Whitespace}
\* String.prototype.trim
Trim(str) ==
    Only({ IF Inked(x) = {} THEN <<>>
           ELSE SubSeq(x, CHOOSE i \in Inked(x) : \A j \in Inked(x) : i <= j,
                          CHOOSE i \in Inked(x) : \A j \in Inked(x) : i >= j) :
           x \in {str} })

\* The digits a numeric string of the model may hold.
Digits == 0..9
IsNumeric(str) == Len(str) = 1 /\ \E d \in Digits : ToString(d) = str[1]
NumericValue(str) == CHOOSE d \in Digits : ToString(d) = str[1]

RECURSIVE JSString(_)
\* String(v), and v inside a template literal
JSString(v) ==
    CASE v.t = "undef" -> <<"undefined">>
      [] v.t = "null" -> <<"null">>
      [] v.t = "str" -> v.s
      [] v.t = "num" -> <<ToString(v.n)>>
      [] v.t = "bool" -> IF v.n = 1 THEN <<"true">> ELSE <<"false">>
      [] v.t = "arr" ->
            Join([i \in 1..Len(v.items) |->
                    IF IsNullish(v.items[i]) THEN <<>> ELSE JSString(v.items[i])],
                 <<",">>)
      [] OTHER -> <<"[object Object]">>

\* ToNumber(v) as a relational comparison applies it: [nan, n]
JSNumber(v) ==
    LET ofText(str) ==
            IF Trim(str) = <<>> THEN [nan |-> FALSE, n |-> 0]
            ELSE IF IsNumeric(Trim(str))
                 THEN [nan |-> FALSE, n |-> NumericValue(Trim(str))]
                 ELSE [nan |-> TRUE, n |-> 0]
    IN CASE v.t = "undef" -> [nan |-> TRUE, n |-> 0]
         [] v.t = "null" -> [nan |-> FALSE, n |-> 0]
         [] v.t \in {"num", "bool"} -> [nan |-> FALSE, n |-> v.n]
         [] v.t = "str" -> ofText(v.s)
         [] v.t = "arr" -> ofText(JSString(v))
         [] OTHER -> [nan |-> TRUE, n |-> 0]

\* v > k
JSGreater(v, k) == ~JSNumber(v).nan /\ JSNumber(v).n > k

----------------------------------------------------------------------------
(* The field value resolver of formatTrackerDataForContext *)

\* keys.length <= 3 of the generic object fallback
GenericMaxKeys == 3

\* `${name} (x${field.quantity})`
WithQuantity(name, quantity) == name \o <<" ", "(x">> \o JSString(quantity) \o <<")">>

\* 'quantity' in field && field.quantity > 1
HasQuantity(v) == Has(v, "quantity") /\ JSGreater(Get(v, "quantity"), 1)

\* A wrapper test that also asks for a truthy locked flag.
IsLockedWrapperIfLocked(v) == v.t = "obj" /\ Has(v, "value") /\ Truthy(Get(v, "locked"))

\* field && typeof field === 'object' && !Array.isArray(field) && 'value' in field
IsLockedWrapper(v) == v.t = "obj" /\ Has(v, "value")

\* A generic fallback without the upper limit on the number of keys.
GenericAcceptsAnySize(v) == Len(v.keys) > 0

\* keys.length > 0 && keys.length <= 3
GenericAccepts(v) == Len(v.keys) > 0 /\ Len(v.keys) <= GenericMaxKeys

\* The branches in the order of the historical resolver: the time range and the
\* weather before the name and the title.
ShapeOfRangeFirst(v) ==
    IF Has(v, "mood") THEN "mood"
    ELSE IF Has(v, "start") /\ Has(v, "end") THEN "range"
    ELSE IF Has(v, "emoji") /\ Has(v, "forecast") THEN "weather"
    ELSE IF Has(v, "name") THEN "name"
    ELSE IF Has(v, "title") THEN "title"
    ELSE IF GenericAccepts(v) THEN "generic"
    ELSE "none"

\* The branch of "Handle common object formats" an object takes.
ShapeOf(v) ==
    IF Has(v, "mood") THEN "mood"
    ELSE IF Has(v, "name") THEN "name"
    ELSE IF Has(v, "title") THEN "title"
    ELSE IF Has(v, "start") /\ Has(v, "end") THEN "range"
    ELSE IF Has(v, "emoji") /\ Has(v, "forecast") THEN "weather"
    ELSE IF GenericAccepts(v) THEN "generic"
    ELSE "none"

RECURSIVE getValue(_)

\* A list joined without the filter: empty results stay.
ListTextKeepEmpty(v) ==
    Join([i \in 1..Len(v.items) |-> getValue(v.items[i])], CommaSp)

\* field.map(item => getValue(item)).filter(Boolean).join(', ')
ListText(v) ==
    Join(NonEmpty([i \in 1..Len(v.items) |-> getValue(v.items[i])]), CommaSp)

\* A status object that keeps the fields that read 'None'.
MoodTextKeepNone(v) ==
    Join(NonEmpty(<<getValue(Get(v, "mood"))>>
                  \o [i \in 1..Len(v.keys) |->
                        IF v.keys[i] # "mood" THEN getValue(v.items[i]) ELSE <<>>]),
         DashSp)

\* Status object: the mood, then every other field that is neither empty nor 'None'
MoodText(v) ==
    LET mood == getValue(Get(v, "mood"))
        others == [i \in 1..Len(v.keys) |->
                      IF v.keys[i] # "mood" /\ getValue(v.items[i]) # <<"None">>
                      THEN getValue(v.items[i]) ELSE <<>>]
    IN Join(NonEmpty(<<mood>> \o others), DashSp)

\* Skill/item/quest objects: {name}, {name, quantity}
NameText(v) ==
    IF HasQuantity(v)
    THEN WithQuantity(getValue(Get(v, "name")), Get(v, "quantity"))
    ELSE getValue(Get(v, "name"))

TitleText(v) == getValue(Get(v, "title"))

\* Time object: {start, end}
RangeText(v) == getValue(Get(v, "start")) \o DashSp \o getValue(Get(v, "end"))

\* A weather text made of the forecast alone.
WeatherTextForecast(v) == getValue(Get(v, "forecast"))

\* Weather object: {emoji, forecast}
WeatherText(v) == getValue(Get(v, "emoji")) \o <<" ">> \o getValue(Get(v, "forecast"))

\* A generic fallback that renders every pair, the empty values too.
GenericTextAllPairs(v) ==
    Join([i \in 1..Len(v.keys) |-> <<v.keys[i]>> \o ColonSp \o getValue(v.items[i])],
         CommaSp)

\* Generic object fallback: the "key: value" pairs of the non-empty values
GenericText(v) ==
    Join(NonEmpty([i \in 1..Len(v.keys) |->
            IF getValue(v.items[i]) # <<>>
            THEN <<v.keys[i]>> \o ColonSp \o getValue(v.items[i])
            ELSE <<>>]), CommaSp)

getValue(v) ==
    IF IsNullish(v) THEN <<>>
    ELSE IF IsLockedWrapper(v) THEN getValue(Get(v, "value"))
    ELSE IF ~TypeofObject(v) THEN JSString(v)
    ELSE IF IsArray(v) THEN ListText(v)
    ELSE CASE ShapeOf(v) = "mood" -> MoodText(v)
           [] ShapeOf(v) = "name" -> NameText(v)
           [] ShapeOf(v) = "title" -> TitleText(v)
           [] ShapeOf(v) = "range" -> RangeText(v)
           [] ShapeOf(v) = "weather" -> WeatherText(v)
           [] ShapeOf(v) = "generic" -> GenericText(v)
           [] OTHER -> <<>>

----------------------------------------------------------------------------
(* The field value resolver of formatHistoricalTrackerData *)

RECURSIVE getValueHistorical(_)
getValueHistorical(v) ==
    IF IsNullish(v) THEN <<>>
    ELSE IF v.t = "obj" /\ Has(v, "value") THEN getValueHistorical(Get(v, "value"))
    ELSE IF ~TypeofObject(v) THEN JSString(v)
    ELSE IF IsArray(v)
         THEN Join(NonEmpty([i \in 1..Len(v.items) |-> getValueHistorical(v.items[i])]),
                   CommaSp)
    ELSE IF Has(v, "start") /\ Has(v, "end")
         THEN getValueHistorical(Get(v, "start")) \o DashSp
              \o getValueHistorical(Get(v, "end"))
    ELSE IF Has(v, "emoji") /\ Has(v, "forecast")
         THEN getValueHistorical(Get(v, "emoji")) \o <<" ">>
              \o getValueHistorical(Get(v, "forecast"))
    ELSE IF Has(v, "name")
         THEN IF HasQuantity(v)
              THEN WithQuantity(getValueHistorical(Get(v, "name")), Get(v, "quantity"))
              ELSE getValueHistorical(Get(v, "name"))
    ELSE IF Has(v, "title") THEN getValueHistorical(Get(v, "title"))
    ELSE <<>>

----------------------------------------------------------------------------
(* Tracker snapshots.  A category's payload is absent, legacy text (which   *)
(* JSON.parse rejects), JSON text (data is what JSON.parse returns) or an   *)
(* object already parsed.                                                  *)

Absent == [kind |-> "absent", data |-> JUndef, text |-> <<>>]
Legacy(txt) == [kind |-> "legacy", data |-> JUndef, text |-> txt]
Json(d) == [kind |-> "json", data |-> d, text |-> <<>>]
Live(d) == [kind |-> "object", data |-> d, text |-> <<>>]

\* trackerData: the three payloads of a snapshot; NoTrackerData when there is none
TrackerData(u, i, c) ==
    [userStats |-> u, infoBox |-> i, characterThoughts |-> c, none |-> FALSE]
NoTrackerData ==
    [userStats |-> Absent, infoBox |-> Absent, characterThoughts |-> Absent, none |-> TRUE]

\* if (trackerData.userStats): a non-empty string or a truthy value
PayloadTruthy(p) ==
    \/ p.kind = "legacy" /\ p.text # <<>>
    \/ p.kind = "json"
    \/ p.kind = "object" /\ Truthy(p.data)
\* typeof payload === 'string' ? JSON.parse(payload) : payload
ParseThrows(p) == p.kind = "legacy"
Parsed(p) == p.data

\* The outcome of a run of statements: it threw, or the text it appended.
Ok(txt) == [threw |-> FALSE, out |-> txt]
Threw == [threw |-> TRUE, out |-> <<>>]
\* Statements run in sequence: the first throw ends them.
AllOf(rs) ==
    Only({ IF \E i \in 1..Len(xs) : xs[i].threw THEN Threw
           ELSE Ok(Concat([i \in 1..Len(xs) |-> xs[i].out], 1)) :
           xs \in {rs} })

\* v?.k
OptGet(v, k) == IF IsNullish(v) THEN JUndef ELSE Get(v, k)
IsFalse(v) == v.t = "bool" /\ v.n = 0
IsTrue(v) == v.t = "bool" /\ v.n = 1
\* a === b (two objects of the data or the configuration are never the same one)
StrictEq(a, b) ==
    /\ a.t = b.t
    /\ a.t \notin {"arr", "obj"}
    /\ a.s = b.s
    /\ a.n = b.n
\* str.slice(0, -2)
Slice2(str) == SubSeq(str, 1, Len(str) - 2)
\* The property key obj[v] reads.
KeyOf(v) ==
    CASE v.t = "str" /\ Len(v.s) = 1 -> v.s[1]
      [] v.t = "num" -> ToString(v.n)
      [] OTHER -> ""
\* String.prototype.toLowerCase on the words the configuration names fields with
LowerWord(w) ==
    CASE w = "Conditions" -> "conditions"
      [] w = "Wounds" -> "wounds"
      [] w = "HP" -> "hp"
      [] w = "Luck" -> "luck"
      [] w = "Unknown" -> "unknown"
      [] OTHER -> w
ToLowerCase(str) == [i \in 1..Len(str) |-> LowerWord(str[i])]

----------------------------------------------------------------------------
(* formatHistoricalTrackerData *)

\* A filter that includes a field unless its persistInHistory flag is false.
shouldIncludeByDefault(config, useAllEnabled) ==
    IF useAllEnabled
    THEN ~IsFalse(OptGet(config, "enabled"))
    ELSE ~IsFalse(OptGet(config, "persistInHistory"))

\* shouldInclude of formatHistoricalTrackerData
shouldInclude(config, useAllEnabled) ==
    IF useAllEnabled
    THEN ~IsFalse(OptGet(config, "enabled"))
    ELSE IsTrue(OptGet(config, "persistInHistory"))

\* shouldIncludeStat of formatHistoricalTrackerData
shouldIncludeStat(configStat, useAllEnabled) ==
    IF useAllEnabled
    THEN ~IsFalse(OptGet(configStat, "enabled"))
    ELSE IsTrue(OptGet(configStat, "persistInHistory"))

\* inv.onPerson / inv.clothing: `Label: a, b, ` of a non-empty array
ItemsLine(label, list) ==
    IF Truthy(list) /\ IsArray(list) /\ Len(list.items) > 0
    THEN LET items == NonEmpty([i \in 1..Len(list.items) |->
                                    getValueHistorical(list.items[i])])
         IN IF Len(items) > 0
            THEN label \o ColonSp \o Join(items, CommaSp) \o CommaSp
            ELSE <<>>
    ELSE <<>>

\* One turn of the loop over userStatsData.stats.
HistStat(stat, customStats, useAllEnabled) ==
    LET n == Len(customStats.items)
        matches(i) == StrictEq(Get(customStats.items[i], "id"), Get(stat, "id"))
        \* the elements find() visits: up to the first match
        visited == IF IsNullish(stat) THEN {}
                   ELSE {i \in 1..n : \A j \in 1..(i - 1) :
                            ~IsNullish(customStats.items[j]) /\ ~matches(j)}
        found == {i \in visited : ~IsNullish(customStats.items[i]) /\ matches(i)}
        configStat == IF found = {} THEN JUndef
                      ELSE customStats.items[CHOOSE i \in found : TRUE]
        statName == IF Truthy(Get(stat, "name")) THEN Get(stat, "name")
                    ELSE IF Truthy(Get(configStat, "name")) THEN Get(configStat, "name")
                    ELSE Get(stat, "id")
    IN IF ~IsArray(customStats) THEN Threw
       ELSE IF n > 0 /\ IsNullish(stat) THEN Threw
       ELSE IF \E i \in visited : IsNullish(customStats.items[i]) THEN Threw
       ELSE IF ~shouldIncludeStat(configStat, useAllEnabled) THEN Ok(<<>>)
       ELSE IF IsNullish(stat) THEN Threw
       ELSE IF Get(stat, "value").t = "undef" THEN Ok(<<>>)
       ELSE IF ~Truthy(Get(stat, "name")) /\ IsNullish(configStat) THEN Threw
       ELSE Ok(JSString(statName) \o ColonSp \o JSString(Get(stat, "value")) \o CommaSp)

\* Custom stats with persistInHistory enabled (or enabled if useAllEnabled)
HistStats(data, cfg, useAllEnabled) ==
    LET stats == Get(data, "stats")
    IN IF ~(Truthy(stats) /\ IsArray(stats)) THEN Ok(<<>>)
       ELSE IF ~Truthy(Get(cfg, "customStats")) THEN Ok(<<>>)
       ELSE AllOf([i \in 1..Len(stats.items) |->
                     HistStat(stats.items[i], Get(cfg, "customStats"), useAllEnabled)])

\* One turn of the loop over statusSection.customFields.
HistStatusField(fieldName, status) ==
    IF fieldName.t # "str" THEN Threw
    ELSE LET fieldValue == getValueHistorical(Get(status, KeyOf(JStr(ToLowerCase(fieldName.s)))))
         IN IF fieldValue # <<>> /\ fieldValue # <<"None">>
            THEN Ok(fieldName.s \o ColonSp \o fieldValue \o CommaSp)
            ELSE Ok(<<>>)

\* Status section
HistStatus(data, cfg, useAllEnabled) ==
    LET section == Get(cfg, "statusSection")
        status == Get(data, "status")
        mood == getValueHistorical(IF Truthy(Get(status, "mood"))
                                   THEN Get(status, "mood") ELSE status)
        customFields == IF Truthy(Get(section, "customFields"))
                        THEN Get(section, "customFields") ELSE Arr(<<>>)
    IN IF ~(shouldInclude(section, useAllEnabled) /\ Truthy(status)) THEN Ok(<<>>)
       ELSE IF IsNullish(section) THEN Threw
       ELSE IF customFields.t \notin {"arr", "str"} THEN Threw
       ELSE AllOf(
              << Ok(IF mood # <<>> /\ Truthy(Get(section, "showMoodEmoji"))
                    THEN <<"Mood">> \o ColonSp \o mood \o CommaSp ELSE <<>>) >>
              \o [i \in 1..Len(customFields.items) |->
                    HistStatusField(customFields.items[i], status)])

\* Skills section
HistSkills(data, cfg, useAllEnabled) ==
    LET skills == Get(data, "skills")
        skillsList == IF IsArray(skills)
                      THEN Join(NonEmpty([i \in 1..Len(skills.items) |->
                                    getValueHistorical(skills.items[i])]), CommaSp)
                      ELSE getValueHistorical(skills)
    IN IF shouldInclude(Get(cfg, "skillsSection"), useAllEnabled) /\ Truthy(skills)
          /\ skillsList # <<>>
       THEN <<"Skills">> \o ColonSp \o skillsList \o CommaSp
       ELSE <<>>

\* const shouldIncludeInventory = useAllEnabled || userStatsConfig.inventoryPersistInHistory
shouldIncludeInventory(cfg, useAllEnabled) ==
    useAllEnabled \/ Truthy(Get(cfg, "inventoryPersistInHistory"))

\* Inventory
HistInventory(data, cfg, useAllEnabled) ==
    LET inv == Get(data, "inventory")
    IN IF shouldIncludeInventory(cfg, useAllEnabled) /\ Truthy(inv)
       THEN ItemsLine(<<"On", " ", "Person">>, Get(inv, "onPerson"))
            \o ItemsLine(<<"Clothing">>, Get(inv, "clothing"))
       ELSE <<>>

\* const shouldIncludeQuests = useAllEnabled || userStatsConfig.questsPersistInHistory
shouldIncludeQuests(cfg, useAllEnabled) ==
    useAllEnabled \/ Truthy(Get(cfg, "questsPersistInHistory"))

\* Quests
HistQuests(data, cfg, useAllEnabled) ==
    LET quests == Get(data, "quests")
        mainQuest == getValueHistorical(Get(quests, "main"))
    IN IF shouldIncludeQuests(cfg, useAllEnabled) /\ Truthy(quests)
          /\ Truthy(Get(quests, "main")) /\ mainQuest # <<>> /\ mainQuest # <<"None">>
       THEN <<"Quest">> \o ColonSp \o mainQuest \o CommaSp
       ELSE <<>>

\* Process userStats if present
HistUserStats(payload, cfg, userName, useAllEnabled) ==
    IF ~PayloadTruthy(payload) THEN Ok(<<>>)
    ELSE IF ParseThrows(payload) THEN Threw
    ELSE IF IsNullish(Parsed(payload)) \/ IsNullish(cfg) THEN Threw
    ELSE LET data == Parsed(payload)
         IN Only({ IF statsFormatted.threw THEN Threw
                   ELSE IF statsFormatted.out # <<>>
                        THEN Ok(userName \o ColonSp \o Slice2(statsFormatted.out)
                                \o <<"\n">>)
                        ELSE Ok(<<>>) :
                   statsFormatted \in
                       {AllOf(<< HistStats(data, cfg, useAllEnabled),
                                 HistStatus(data, cfg, useAllEnabled),
                                 Ok(HistSkills(data, cfg, useAllEnabled)),
                                 Ok(HistInventory(data, cfg, useAllEnabled)),
                                 Ok(HistQuests(data, cfg, useAllEnabled)) >>)} })

\* The info box widgets in the order the code reads them, with their labels.
HistWidgets ==
    << <<"date", "Date">>, <<"time", "Time">>, <<"weather", "Weather">>,
       <<"temperature", "Temp">>, <<"location", "Location">>,
       <<"recentEvents", "Events">> >>

\* One widget of the info box.
HistWidget(w, data, widgets, useAllEnabled) ==
    IF ~shouldInclude(Get(widgets, w[1]), useAllEnabled) THEN Ok(<<>>)
    ELSE IF IsNullish(data) THEN Threw
    ELSE IF Truthy(Get(data, w[1])) /\ getValueHistorical(Get(data, w[1])) # <<>>
         THEN Ok(<<w[2]>> \o ColonSp \o getValueHistorical(Get(data, w[1])) \o CommaSp)
         ELSE Ok(<<>>)

\* Process infoBox if present
HistInfoBox(payload, cfg, useAllEnabled) ==
    IF ~PayloadTruthy(payload) THEN Ok(<<>>)
    ELSE IF ParseThrows(payload) THEN Threw
    ELSE IF IsNullish(cfg) \/ IsNullish(Get(cfg, "widgets")) THEN Threw
    ELSE Only({ IF infoFormatted.threw THEN Threw
                ELSE IF infoFormatted.out # <<>>
                     THEN Ok(Slice2(infoFormatted.out) \o <<"\n">>)
                     ELSE Ok(<<>>) :
                infoFormatted \in
                    {AllOf([i \in 1..Len(HistWidgets) |->
                              HistWidget(HistWidgets[i], Parsed(payload),
                                         Get(cfg, "widgets"), useAllEnabled)])} })

\* One turn of the loop over charsConfig.customFields.
HistCharField(fld, details, useAllEnabled) ==
    IF ~shouldIncludeStat(fld, useAllEnabled) THEN Ok(<<>>)
    ELSE IF IsNullish(fld) THEN Threw
    ELSE LET value == Get(details, KeyOf(Get(fld, "id")))
         IN IF Truthy(value) /\ getValueHistorical(value) # <<>>
            THEN Ok(JSString(Get(fld, "name")) \o ColonSp
                    \o getValueHistorical(value) \o CommaSp)
            ELSE Ok(<<>>)

\* Custom fields (appearance, demeanor, etc.)
HistCharDetails(char, cfg, useAllEnabled) ==
    LET details == Get(char, "details")
        customFields == Get(cfg, "customFields")
    IN IF ~(Truthy(details) /\ TypeofObject(details)) THEN Ok(<<>>)
       ELSE IF IsNullish(cfg) THEN Threw
       ELSE IF customFields.t \notin {"arr", "str"} THEN Threw
       ELSE AllOf([i \in 1..Len(customFields.items) |->
                     HistCharField(customFields.items[i], details, useAllEnabled)])

\* Thoughts
HistCharThoughts(char, cfg, useAllEnabled) ==
    LET thoughts == Get(char, "thoughts")
        text == IF TypeofObject(thoughts) /\ Truthy(Get(thoughts, "content"))
                THEN getValueHistorical(Get(thoughts, "content"))
                ELSE getValueHistorical(thoughts)
    IN IF IsNullish(cfg) THEN Threw
       ELSE IF shouldInclude(Get(cfg, "thoughts"), useAllEnabled) /\ Truthy(thoughts)
               /\ text # <<>>
            THEN Ok(<<"Thinking">> \o ColonSp \o text \o CommaSp)
            ELSE Ok(<<>>)

\* One turn of the loop over the characters.
HistCharacter(char, cfg, useAllEnabled) ==
    IF ~Truthy(char) \/ ~Truthy(Get(char, "name")) THEN Ok(<<>>)
    ELSE Only({ IF charFormatted.threw THEN Threw
                ELSE IF charFormatted.out # <<>>
                     THEN Ok(getValueHistorical(Get(char, "name")) \o ColonSp
                             \o Slice2(charFormatted.out) \o <<"\n">>)
                     ELSE Ok(<<>>) :
                charFormatted \in
                    {AllOf(<< HistCharDetails(char, cfg, useAllEnabled),
                              HistCharThoughts(char, cfg, useAllEnabled) >>)} })

\* Process characterThoughts if present
HistCharacters(payload, cfg, useAllEnabled) ==
    IF ~PayloadTruthy(payload) THEN Ok(<<>>)
    ELSE IF ParseThrows(payload) THEN Threw
    ELSE IF IsNullish(Parsed(payload)) THEN Threw
    ELSE LET charsData == Parsed(payload)
             characters == IF IsArray(charsData) THEN charsData
                           ELSE IF Truthy(Get(charsData, "characters"))
                                THEN Get(charsData, "characters") ELSE Arr(<<>>)
         IN IF characters.t \notin {"arr", "str"} THEN Threw
            ELSE AllOf([i \in 1..Len(characters.items) |->
                          HistCharacter(characters.items[i], cfg, useAllEnabled)])

\* The three categories, each [threw, out]
HistParts(trackerData, trackerConfig, userName, useAllEnabled) ==
    << HistUserStats(trackerData.userStats, Get(trackerConfig, "userStats"),
                     userName, useAllEnabled),
       HistInfoBox(trackerData.infoBox, Get(trackerConfig, "infoBox"), useAllEnabled),
       HistCharacters(trackerData.characterThoughts,
                      Get(trackerConfig, "presentCharacters"), useAllEnabled) >>

\* The try block: one catch around the three categories
HistTry(parts) == AllOf(parts)

formatHistoricalTrackerData(trackerData, trackerConfig, userName, useAllEnabled) ==
    IF trackerData.none \/ ~Truthy(trackerConfig) THEN <<>>
    ELSE Only({ IF formatted.threw THEN <<>> ELSE Trim(formatted.out) :
                formatted \in {HistTry(HistParts(trackerData, trackerConfig, userName,
                                                 useAllEnabled))} })

----------------------------------------------------------------------------
(* formatTrackerDataForContext *)

\* str.charAt(0).toUpperCase() + str.slice(1), on the keys the snapshots of
\* the model hold; any other word starts with a capital or a digit.
UpperFirst(w) ==
    CASE w = "health" -> "Health"
      [] w = "mana" -> "Mana"
      [] w = "stamina" -> "Stamina"
      [] w = "satiety" -> "Satiety"
      [] w = "hygiene" -> "Hygiene"
      [] w = "energy" -> "Energy"
      [] w = "arousal" -> "Arousal"
      [] w = "luck" -> "Luck"
      [] w = "hp" -> "Hp"
      [] w = "mp" -> "Mp"
      [] w = "events" -> "Events"
      [] w = "appearance" -> "Appearance"
      [] w = "recentEvents" -> "RecentEvents"
      [] w = "hair_color" -> "Hair_color"
      [] OTHER -> w

\* key.replace(/_/g, ' ') (for a character's details only)
\*    .replace(/([A-Z])/g, ' $1').replace(/^./, str => str.toUpperCase()).trim()
TitleCase(key, underscores) ==
    CASE key = "recentEvents" -> "Recent Events"
      [] key = "hair_color" /\ underscores -> "Hair color"
      [] OTHER -> UpperFirst(key)

\* Object.entries(v): [key, value] of an object's keys and of an array's indices
Entries(v) ==
    CASE v.t = "obj" -> [i \in 1..Len(v.keys) |-> [key |-> v.keys[i], value |-> v.items[i]]]
      [] v.t = "arr" -> [i \in 1..Len(v.items) |-> [key |-> ToString(i - 1), value |-> v.items[i]]]
      [] OTHER -> <<>>

\* const statConfig = customStats.find(s => s.id === statId);
\* return statConfig?.maxValue || 100   -- [threw, val]
getMaxValue(customStats, statId) ==
    LET n == Len(customStats.items)
        matches(i) == StrictEq(Get(customStats.items[i], "id"), statId)
        \* the elements find() visits: up to the first match
        visited == {i \in 1..n : \A j \in 1..(i - 1) :
                        ~IsNullish(customStats.items[j]) /\ ~matches(j)}
        found == {i \in visited : ~IsNullish(customStats.items[i]) /\ matches(i)}
        maxValue == IF found = {} THEN JUndef
                    ELSE Get(customStats.items[CHOOSE i \in found : TRUE], "maxValue")
    IN IF ~IsArray(customStats) THEN [threw |-> TRUE, val |-> JUndef]
       ELSE IF \E i \in visited : IsNullish(customStats.items[i])
            THEN [threw |-> TRUE, val |-> JUndef]
       ELSE [threw |-> FALSE, val |-> IF Truthy(maxValue) THEN maxValue ELSE Num(100)]

\* A number mode that writes the value without its maximum.
formatStatValueNoMax(displayMode, customStats, value, statId) == Ok(value)

\* formatStatValue, as the template literal of the line prints it
formatStatValue(displayMode, customStats, value, statId) ==
    IF StrictEq(displayMode, Str("number"))
    THEN IF getMaxValue(customStats, statId).threw THEN Threw
         ELSE Ok(value \o <<"/">> \o JSString(getMaxValue(customStats, statId).val))
    ELSE Ok(value)

\* One turn of the loop over data.stats.
CtxStat(stat, displayMode, customStats) ==
    LET name == Get(stat, "name")
        id == Get(stat, "id")
        statName == IF Truthy(name) THEN name
                    ELSE IF Truthy(id)
                         THEN JStr(<<UpperFirst(Head(id.s))>> \o Tail(id.s))
                         ELSE Str("Unknown")
        statId == IF Truthy(id) THEN id ELSE JStr(ToLowerCase(statName.s))
    IN IF ~Truthy(stat) \/ Get(stat, "value").t = "undef" THEN Ok(<<>>)
       ELSE IF ~Truthy(name) /\ Truthy(id) /\ id.t # "str" THEN Threw
       ELSE IF ~Truthy(id) /\ statName.t # "str" THEN Threw
       ELSE AllOf(<< Ok(JSString(statName) \o ColonSp),
                     formatStatValue(displayMode, customStats,
                                     JSString(Get(stat, "value")), statId),
                     Ok(<<"\n">>) >>)

\* `${label}: ${items.join(', ')}\n` of a non-empty array with a non-empty item
CtxItems(label, list) ==
    IF Truthy(list) /\ IsArray(list) /\ Len(list.items) > 0
       /\ \E i \in 1..Len(list.items) : getValue(list.items[i]) # <<>>
    THEN label \o ColonSp
         \o Join(NonEmpty([i \in 1..Len(list.items) |-> getValue(list.items[i])]), CommaSp)
         \o <<"\n">>
    ELSE <<>>

\* Fallback: handle flat format {health: 10, mana: 20, ...}
CtxFlatStats(data, displayMode, customStats) ==
    LET statFieldOrder == <<"health", "mana", "stamina", "satiety", "hygiene",
                            "energy", "arousal">>
        specialFields == {"status", "mood", "skills", "inventory", "quests"}
        ordered == {statFieldOrder[i] : i \in 1..Len(statFieldOrder)}
        known(statName) ==
            IF Get(data, statName).t # "undef" /\ getValue(Get(data, statName)) # <<>>
            THEN AllOf(<< Ok(<<UpperFirst(statName)>> \o ColonSp),
                          formatStatValue(displayMode, customStats,
                                          getValue(Get(data, statName)), Str(statName)),
                          Ok(<<"\n">>) >>)
            ELSE Ok(<<>>)
        custom(e) ==
            IF e.key \notin ordered /\ e.key \notin specialFields /\ e.value.t = "num"
            THEN AllOf(<< Ok(<<UpperFirst(e.key)>> \o ColonSp),
                          formatStatValue(displayMode, customStats,
                                          getValue(e.value), Str(e.key)),
                          Ok(<<"\n">>) >>)
            ELSE Ok(<<>>)
    IN AllOf([i \in 1..Len(statFieldOrder) |-> known(statFieldOrder[i])]
             \o [i \in 1..Len(Entries(data)) |-> custom(Entries(data)[i])])

\* Skills - handle both array and object format
CtxSkills(skills) ==
    LET pair(e) == IF getValue(e.value) # <<>>
                   THEN <<e.key>> \o ColonSp \o getValue(e.value)
                   ELSE IF e.key = "" THEN <<>> ELSE <<e.key>>
        skillsList ==
            IF IsArray(skills)
            THEN Join(NonEmpty([i \in 1..Len(skills.items) |-> getValue(skills.items[i])]),
                      CommaSp)
            ELSE Join(NonEmpty([i \in 1..Len(Entries(skills)) |-> pair(Entries(skills)[i])]),
                      CommaSp)
    IN IF Truthy(skills) /\ TypeofObject(skills) /\ skillsList # <<>>
       THEN <<"Skills">> \o ColonSp \o skillsList \o <<"\n">>
       ELSE <<>>

\* Inventory sections
CtxInventory(inv) ==
    LET stored == Get(inv, "stored")
    IN IF ~Truthy(inv) THEN <<>>
       ELSE CtxItems(<<"On", " ", "Person">>, Get(inv, "onPerson"))
            \o CtxItems(<<"Clothing">>, Get(inv, "clothing"))
            \o (IF stored.t = "obj"
                THEN Flatten([i \in 1..Len(stored.keys) |->
                                 CtxItems(IF stored.keys[i] = "" THEN <<>>
                                          ELSE <<stored.keys[i]>>, stored.items[i])])
                ELSE <<>>)
            \o CtxItems(<<"Assets">>, Get(inv, "assets"))

\* Quests
CtxQuests(quests) ==
    LET main == Get(quests, "main")
    IN IF ~Truthy(quests) THEN <<>>
       ELSE (IF ~Truthy(main) THEN <<>>
             ELSE IF IsArray(main) THEN CtxItems(<<"Main", " ", "Quests">>, main)
             ELSE IF main.t \in {"str", "obj"} /\ getValue(main) # <<>>
                  THEN <<"Main", " ", "Quest">> \o ColonSp \o getValue(main) \o <<"\n">>
                  ELSE <<>>)
            \o CtxItems(<<"Optional", " ", "Quests">>, Get(quests, "optional"))

\* trackerType === 'userStats'
CtxUserStats(data, userStatsConfig, userName) ==
    LET displayMode == IF Truthy(OptGet(userStatsConfig, "statsDisplayMode"))
                       THEN OptGet(userStatsConfig, "statsDisplayMode")
                       ELSE Str("percentage")
        customStats == IF Truthy(OptGet(userStatsConfig, "customStats"))
                       THEN OptGet(userStatsConfig, "customStats")
                       ELSE Arr(<<>>)
        stats == Get(data, "stats")
        labelled(label, v) ==
            IF Truthy(v) THEN <<label>> \o ColonSp \o getValue(v) \o <<"\n">> ELSE <<>>
    IN IF IsNullish(data) THEN Threw
       ELSE AllOf(<< Ok(userName \o <<"'s Stats:", "\n">>),
                     IF Truthy(stats) /\ IsArray(stats)
                     THEN AllOf([i \in 1..Len(stats.items) |->
                                    CtxStat(stats.items[i], displayMode, customStats)])
                     ELSE CtxFlatStats(data, displayMode, customStats),
                     Ok(labelled("Status", Get(data, "status"))
                        \o labelled("Mood", Get(data, "mood"))
                        \o CtxSkills(Get(data, "skills"))
                        \o CtxInventory(Get(data, "inventory"))
                        \o CtxQuests(Get(data, "quests"))) >>)

\* trackerType === 'infoBox'
CtxInfoBox(data) ==
    LET knownFields == << <<"location", "Location">>, <<"date", "Date">>,
                          <<"time", "Time">>, <<"weather", "Weather">>,
                          <<"temperature", "Temperature">> >>
        labelled(k) ==
            IF Truthy(Get(data, k[1]))
            THEN <<k[2]>> \o ColonSp \o getValue(Get(data, k[1])) \o <<"\n">>
            ELSE <<>>
        custom(e) ==
            IF (\A i \in 1..Len(knownFields) : knownFields[i][1] # e.key)
               /\ getValue(e.value) # <<>>
            THEN <<TitleCase(e.key, FALSE)>> \o ColonSp \o getValue(e.value) \o <<"\n">>
            ELSE <<>>
    IN IF IsNullish(data) THEN Threw
       ELSE Ok(<<"Info Box:", "\n">>
               \o Flatten([i \in 1..Len(knownFields) |-> labelled(knownFields[i])])
               \o Flatten([i \in 1..Len(Entries(data)) |-> custom(Entries(data)[i])]))

\* A relationship or thoughts value resolved as a whole, ignoring its inner key.
CtxInnerWhole(v, k) == getValue(v)

\* relValue / thoughtValue: the value under the inner key of a record that has
\* it, the resolved value otherwise
CtxInner(v, k) ==
    IF v.t = "obj" /\ Has(v, k) THEN getValue(Get(v, k)) ELSE getValue(v)

\* One turn of the loop over the roster.
CtxCharacter(char) ==
    LET charName == IF getValue(Get(char, "name")) # <<>>
                    THEN getValue(Get(char, "name")) ELSE <<"Unknown">>
        details == Get(char, "details")
        detail(e) ==
            IF getValue(e.value) # <<>>
            THEN <<"  ", TitleCase(e.key, TRUE)>> \o ColonSp \o getValue(e.value) \o <<"\n">>
            ELSE <<>>
        labelled(label, v, k) ==
            IF Truthy(v) /\ CtxInner(v, k) # <<>>
            THEN <<"  ", label>> \o ColonSp \o CtxInner(v, k) \o <<"\n">>
            ELSE <<>>
        stats == Get(char, "stats")
        statsList ==
            Join(NonEmpty([i \in 1..Len(stats.keys) |->
                    IF getValue(stats.items[i]) # <<>>
                    THEN <<stats.keys[i]>> \o ColonSp \o getValue(stats.items[i])
                    ELSE <<>>]), CommaSp)
    IN IF IsNullish(char) THEN Threw
       ELSE Ok(<<"-", " ">> \o charName \o <<":", "\n">>
               \o (IF Truthy(details) /\ TypeofObject(details)
                   THEN Flatten([i \in 1..Len(Entries(details)) |->
                                    detail(Entries(details)[i])])
                   ELSE <<>>)
               \o labelled("Relationship", Get(char, "relationship"), "status")
               \o labelled("Thoughts", Get(char, "thoughts"), "content")
               \o (IF stats.t = "obj" /\ statsList # <<>>
                   THEN <<"  ", "Stats">> \o ColonSp \o statsList \o <<"\n">>
                   ELSE <<>>))

\* trackerType === 'characters'
CtxCharacters(data) ==
    IF IsArray(data)
    THEN AllOf(<<Ok(<<"Present Characters:", "\n">>)>>
               \o [i \in 1..Len(data.items) |-> CtxCharacter(data.items[i])])
    ELSE Ok(<<>>)

\* The try block of formatTrackerDataForContext.
CtxTry(jsonData, trackerType, userName, trackerConfig) ==
    IF ParseThrows(jsonData) THEN Threw
    ELSE CASE trackerType = "userStats" ->
                CtxUserStats(Parsed(jsonData), OptGet(trackerConfig, "userStats"), userName)
           [] trackerType = "infoBox" -> CtxInfoBox(Parsed(jsonData))
           [] trackerType = "characters" -> CtxCharacters(Parsed(jsonData))
           [] OTHER -> Ok(<<>>)

\* A catch block that throws the error again.
CtxRethrow(r) == r

\* catch (e) { ...; return ''; }
CtxCatch(r) == IF r.threw THEN Ok(<<>>) ELSE r

\* formatTrackerDataForContext: [threw, out], the string returned or the throw
formatTrackerDataForContext(jsonData, trackerType, userName, trackerConfig) ==
    IF ~PayloadTruthy(jsonData) THEN Ok(<<>>)
    ELSE CtxCatch(CtxTry(jsonData, trackerType, userName, trackerConfig))

----------------------------------------------------------------------------
(* generateTrackerInstructions.  The texts the code writes are abbreviated  *)
(* to one token a sentence; a block of JSON lines is its lines, each one    *)
(* token, with "\n" tokens between them.                                    *)

\* buildAttributesString
buildAttributesString(trackerConfig, ext) ==
    LET userStatsConfig == OptGet(trackerConfig, "userStats")
        attribute(id, name) == Obj(<<"id", "name", "enabled">>, <<Str(id), Str(name), Bool(TRUE)>>)
        rpgAttributes ==
            IF Truthy(OptGet(userStatsConfig, "rpgAttributes"))
            THEN OptGet(userStatsConfig, "rpgAttributes")
            ELSE Arr(<< attribute("str", "STR"), attribute("dex", "DEX"),
                        attribute("con", "CON"), attribute("int", "INT"),
                        attribute("wis", "WIS"), attribute("cha", "CHA") >>)
        enabledAttributes ==
            SelectSeq(rpgAttributes.items,
                      LAMBDA attr : /\ Truthy(attr) /\ Truthy(Get(attr, "enabled"))
                                    /\ Truthy(Get(attr, "name")) /\ Truthy(Get(attr, "id")))
        value(attr) == IF Get(ext.classicStats, KeyOf(Get(attr, "id"))).t # "undef"
                       THEN Get(ext.classicStats, KeyOf(Get(attr, "id")))
                       ELSE Num(10)
        showLevel == ~IsFalse(OptGet(userStatsConfig, "showLevel"))
    IN Join([i \in 1..Len(enabledAttributes) |->
                JSString(Get(enabledAttributes[i], "name")) \o <<" ">>
                \o JSString(value(enabledAttributes[i]))]
            \o (IF showLevel THEN << <<"LVL", " ">> \o JSString(ext.level) >> ELSE <<>>),
            CommaSp)

\* customPrompt.replace(/{userName}/g, userName)
ReplaceUserName(prompt, userName) ==
    Flatten([i \in 1..Len(prompt) |->
                IF prompt[i] = "{userName}" THEN userName ELSE <<prompt[i]>>])

RECURSIVE SplitLines(_)
\* text.split('\n')
SplitLines(text) ==
    IF \A i \in 1..Len(text) : text[i] # "\n" THEN <<text>>
    ELSE LET at == CHOOSE i \in 1..Len(text) :
                       text[i] = "\n" /\ \A j \in 1..(i - 1) : text[j] # "\n"
         IN <<SubSeq(text, 1, at - 1)>> \o SplitLines(SubSeq(text, at + 1, Len(text)))

\* json.split('\n').map((line, i) => i === 0 ? line : '  ' + line).join('\n')
IndentBlock(json) ==
    Join([i \in 1..Len(SplitLines(json)) |->
            IF i = 1 THEN SplitLines(json)[i] ELSE <<"  ">> \o SplitLines(json)[i]],
         <<"\n">>)

\* enabledTrackers
enabledTrackers(ext) ==
    (IF ext.showUserStats THEN <<"userStats">> ELSE <<>>)
    \o (IF ext.showInfoBox THEN <<"infoBox">> ELSE <<>>)
    \o (IF ext.showCharacterThoughts THEN <<"characters">> ELSE <<>>)

\* A comma after every category block that can have one.
SeparatorAlways(trackers, name) == <<",", "\n">>

\* enabledTrackers.indexOf(name) < enabledTrackers.length - 1 ? ',\n' : '\n'
Separator(trackers, name) ==
    LET indexOf == IF \E i \in 1..Len(trackers) : trackers[i] = name
                   THEN (CHOOSE i \in 1..Len(trackers) : trackers[i] = name) - 1
                   ELSE -1
    IN IF indexOf < Len(trackers) - 1 THEN <<",", "\n">> ELSE <<"\n">>

\* Add format specifications for each enabled tracker using JSON ("<fence>" is the
\* code fence of three backquotes)
FormatBlock(ext, helpers) ==
    IF Len(enabledTrackers(ext)) > 0
    THEN <<"\n\n", "FORMAT:", "\n\n", "Provide EXACTLY ONE JSON code block ...:",
           "\n\n", "<fence>json", "\n", "{", "\n">>
         \o (IF ext.showUserStats
             THEN <<"  ", "\"userStats\": ">> \o IndentBlock(helpers.userStats)
                  \o Separator(enabledTrackers(ext), "userStats")
             ELSE <<>>)
         \o (IF ext.showInfoBox
             THEN <<"  ", "\"infoBox\": ">> \o IndentBlock(helpers.infoBox)
                  \o Separator(enabledTrackers(ext), "infoBox")
             ELSE <<>>)
         \o (IF ext.showCharacterThoughts
             THEN <<"  ", "\"characters\": ">> \o IndentBlock(helpers.characters)
             ELSE <<>>)
         \o <<"\n", "}", "\n", "<fence>", "\n\n", "Do NOT output multiple separate JSON objects. ...">>
    ELSE <<>>

\* Tracker instructions that are written whether or not a tracker is enabled.
hasAnyTrackersAlways(ext) == TRUE

\* Check if any trackers are enabled
hasAnyTrackers(ext) ==
    ext.showUserStats \/ ext.showInfoBox \/ ext.showCharacterThoughts

generateTrackerInstructions(includeHtmlPrompt, includeContinuation, includeAttributes, ext, trackerConfig, userName, helpers) ==
    LET userStatsConfig == OptGet(trackerConfig, "userStats")
        sendAttributes == /\ Truthy(OptGet(userStatsConfig, "alwaysSendAttributes"))
                          /\ ~IsFalse(OptGet(userStatsConfig, "showRPGAttributes"))
        explained == IF ext.customTrackerInstructionsPrompt # <<>>
                  THEN ReplaceUserName(ext.customTrackerInstructionsPrompt, userName)
                  ELSE <<"Replace X with actual numbers ... details that ">> \o userName
                       \o <<" perceives ... DO NOT include ">> \o userName
                       \o <<" in the characters section, only NPCs. ",
                            "Consider the last trackers in the conversation ...">>
        continuation ==
            IF ~includeContinuation THEN <<>>
            ELSE IF ext.customTrackerContinuationPrompt # <<>>
                 THEN <<"\n\n">> \o ext.customTrackerContinuationPrompt \o <<"\n\n">>
                 ELSE <<"\n\n", "After updating the trackers, continue directly ...", "\n\n">>
        attributes ==
            IF includeAttributes /\ sendAttributes
            THEN userName \o <<"'s attributes: ">> \o buildAttributesString(trackerConfig, ext)
                 \o <<"\n">>
            ELSE <<>>
        rolled == userName \o <<" rolled ">> \o JSString(Get(ext.lastDiceRoll, "total"))
                  \o <<" on the last ">> \o JSString(Get(ext.lastDiceRoll, "formula"))
                  \o <<" roll. ">>
        dice ==
            IF Truthy(ext.lastDiceRoll)
            THEN rolled
                 \o (IF includeAttributes /\ sendAttributes
                     THEN <<"Based on their attributes, decide whether they succeeded ...">>
                     ELSE <<"Decide whether they succeeded ...">>)
                 \o <<"\n\n">>
            ELSE IF includeAttributes /\ sendAttributes THEN <<"\n">>
            ELSE <<>>
        trackers ==
            IF hasAnyTrackers(ext)
            THEN <<"\n", "At the start of every reply, you must attach an update ... ">>
                 \o explained \o helpers.lock \o FormatBlock(ext, helpers)
                 \o continuation \o attributes \o dice
            ELSE <<>>
        html ==
            IF ext.enableHtmlPrompt /\ includeHtmlPrompt
            THEN (IF hasAnyTrackers(ext) THEN <<>> ELSE <<"\n">>)
                 \o (IF ext.customHtmlPrompt # <<>> THEN ext.customHtmlPrompt
                     ELSE <<"DEFAULT_HTML_PROMPT">>)
            ELSE <<>>
        spotify ==
            IF ext.enableSpotifyMusic /\ includeHtmlPrompt
            THEN (IF hasAnyTrackers(ext) \/ ext.enableHtmlPrompt THEN <<"\n\n">> ELSE <<"\n">>)
                 \o (IF ext.customSpotifyPrompt # <<>> THEN ext.customSpotifyPrompt
                     ELSE <<"DEFAULT_SPOTIFY_PROMPT">>)
                 \o <<" ", "SPOTIFY_FORMAT_INSTRUCTION">>
            ELSE <<>>
    IN trackers \o html \o spotify

\* extensionSettings with the three categories shown or not and every prompt
\* option at its default.
ExtSettings(showUserStats, showInfoBox, showCharacterThoughts) ==
    [showUserStats |-> showUserStats, showInfoBox |-> showInfoBox,
     showCharacterThoughts |-> showCharacterThoughts,
     customTrackerInstructionsPrompt |-> <<>>,
     customTrackerContinuationPrompt |-> <<>>,
     lastDiceRoll |-> JNull,
     enableHtmlPrompt |-> FALSE, customHtmlPrompt |-> <<>>,
     enableSpotifyMusic |-> FALSE, customSpotifyPrompt |-> <<>>,
     classicStats |-> Obj(<<"str">>, <<Num(12)>>), level |-> Num(5)]

\* The texts buildUserStatsJSONInstruction, buildInfoBoxJSONInstruction,
\* buildCharactersJSONInstruction and addLockInstruction('') return.
JsonHelpers(lock) ==
    [userStats |-> <<"{", "\n", "  \"stats\": [...],", "\n", "  \"status\": {...}", "\n", "}">>,
     infoBox |-> <<"{ \"location\": \"[Location]\" }">>,
     characters |-> <<"[", "\n", "  { \"name\": \"[Name]\" }", "\n", "]">>,
     lock |-> lock]

\* The arguments of generateTrackerInstructions.
InstrArgs(includeHtmlPrompt, includeContinuation, includeAttributes) ==
    [includeHtmlPrompt |-> includeHtmlPrompt, includeContinuation |-> includeContinuation,
     includeAttributes |-> includeAttributes]

----------------------------------------------------------------------------
(* generateSeparateUpdatePrompt: the window, the injection map, the merge *)

\* message.extra?.rpg_companion_swipes: absent, or the snapshots by swipe id
NoSwipes == [has |-> FALSE, swipes |-> <<>>]
Swipes(byId) == [has |-> TRUE, swipes |-> byId]

\* A chat message; swipe_info holds the rpg_companion_swipes of each swipe.
Message(is_user, is_system, mes, swipe_id, extra, swipe_info) ==
    [is_user |-> is_user, is_system |-> is_system, mes |-> mes,
     swipe_id |-> swipe_id, extra |-> extra, swipe_info |-> swipe_info]

\* extensionSettings.historyPersistence, and an extension without the setting
HistoryPersistence(enabled, injectionPosition, sendAllEnabledOnRefresh, contextPreamble) ==
    [defined |-> TRUE, enabled |-> enabled, injectionPosition |-> injectionPosition,
     sendAllEnabledOnRefresh |-> sendAllEnabledOnRefresh,
     contextPreamble |-> contextPreamble]
NoHistoryPersistence ==
    [defined |-> FALSE, enabled |-> FALSE, injectionPosition |-> "",
     sendAllEnabledOnRefresh |-> FALSE, contextPreamble |-> <<>>]

\* chat.slice(-depth)
SliceLast(msgs, depth) ==
    IF depth > 0
    THEN SubSeq(msgs, IF depth >= Len(msgs) THEN 1 ELSE Len(msgs) - depth + 1, Len(msgs))
    ELSE SubSeq(msgs, 1 - depth, Len(msgs))

\* historyPersistence?.injectionPosition || 'assistant_message_end'
PositionOf(hp) ==
    IF hp.defined /\ hp.injectionPosition # "" THEN hp.injectionPosition
    ELSE "assistant_message_end"

\* The index of the first assistant message of the window, or -1.
firstAssistantIdx(recent) ==
    LET found == {i \in 0..(Len(recent) - 1) :
                     ~recent[i + 1].is_user /\ ~recent[i + 1].is_system}
    IN IF found = {} THEN -1 ELSE CHOOSE i \in found : \A j \in found : i <= j

\* Find the last assistant message index (in recentMessages), or -1.
lastAssistantIdx(recent) ==
    LET found == {i \in 0..(Len(recent) - 1) :
                     ~recent[i + 1].is_user /\ ~recent[i + 1].is_system}
    IN IF found = {} THEN -1 ELSE CHOOSE i \in found : \A j \in found : i >= j

\* message.swipe_id || 0
currentSwipeId(message) ==
    IF Truthy(message.swipe_id) THEN message.swipe_id.n ELSE 0

\* The rpg_companion_swipes of the message: message.extra's, else swipe_info's
swipeData(message) ==
    IF message.extra.has THEN message.extra
    ELSE IF Len(message.swipe_info) > currentSwipeId(message)
         THEN message.swipe_info[currentSwipeId(message) + 1]
         ELSE NoSwipes

\* swipeData[currentSwipeId], where there is swipeData
trackerDataOf(message) ==
    IF swipeData(message).has
       /\ Len(swipeData(message).swipes) > currentSwipeId(message)
    THEN swipeData(message).swipes[currentSwipeId(message) + 1]
    ELSE NoTrackerData

\* A context formatted with the user name of the moment, not the one read
\* before the await.
formattedContextLive(message, c) ==
    formatHistoricalTrackerData(trackerDataOf(message), c.trackerConfig, name1,
                                c.historyPersistence.sendAllEnabledOnRefresh = TRUE)

\* formattedContext of a message that has tracker data
formattedContext(message, c) ==
    formatHistoricalTrackerData(trackerDataOf(message), c.trackerConfig, c.userName,
                                c.historyPersistence.sendAllEnabledOnRefresh = TRUE)

\* `\n${preamble}\n${formattedContext}`
wrappedContext(formatted, hp) ==
    <<"\n">>
    \o (IF hp.contextPreamble # <<>> THEN hp.contextPreamble
        ELSE <<"Context for that moment:">>)
    \o <<"\n">> \o formatted

\* A target that falls back on the assistant message when no user message precedes.
targetIdxOrSelf(recent, i, position) ==
    IF position = "user_message_end"
    THEN LET users == {j \in 0..(i - 1) : recent[j + 1].is_user /\ ~recent[j + 1].is_system}
         IN IF users = {} THEN i ELSE CHOOSE j \in users : \A k \in users : j >= k
    ELSE i

\* Determine target message based on position; -1 when the message is skipped.
targetIdx(recent, i, position) ==
    IF position = "user_message_end"
    THEN LET users == {j \in 0..(i - 1) : recent[j + 1].is_user /\ ~recent[j + 1].is_system}
         IN IF users = {} THEN -1 ELSE CHOOSE j \in users : \A k \in users : j >= k
    ELSE i

\* new Map()
NewMap == <<>>

\* An entry that the later context replaces.
MapOverwrite(map, k, wrapped) ==
    [j \in DOMAIN map \cup {k} |-> IF j = k THEN wrapped ELSE map[j]]

\* Append to existing or create new entry
MapAppend(map, k, wrapped) ==
    [j \in DOMAIN map \cup {k} |->
        IF j # k THEN map[j]
        ELSE IF k \in DOMAIN map THEN map[k] \o wrapped ELSE wrapped]

\* A loop that skips no assistant message for being the last.
SkipsLastNever(i, last) == FALSE

\* Skip the last assistant message - it gets current context elsewhere
SkipsLast(i, last) == i = last

\* One turn of the loop over recentMessages.
MapStep(recent, c, last, i, map) ==
    LET message == recent[i + 1]
    IN IF message.is_user \/ message.is_system THEN map
       ELSE IF SkipsLast(i, last) THEN map
       ELSE IF trackerDataOf(message).none THEN map
       ELSE Only({ IF formatted = <<>> THEN map
                   ELSE IF k = -1 THEN map
                   ELSE MapAppend(map, k, wrappedContext(formatted, c.historyPersistence)) :
                   formatted \in {formattedContext(message, c)},
                   k \in {targetIdx(recent, i, PositionOf(c.historyPersistence))} })

RECURSIVE MapLoop(_, _, _, _, _)
\* The loop over recentMessages from index i on.
MapLoop(recent, c, last, i, map) ==
    IF i >= Len(recent) THEN map
    ELSE Only({MapLoop(recent, c, last, i + 1, m) : m \in {MapStep(recent, c, last, i, map)}})

\* A map that is built whether history persistence is enabled or not.
BuildMapAlways(recent, c) ==
    Only({MapLoop(recent, c, last, 0, NewMap) : last \in {lastAssistantIdx(recent)}})

\* Build a map of which messages should get context based on position setting
BuildMap(recent, c) ==
    IF c.historyPersistence.defined /\ c.historyPersistence.enabled
    THEN Only({MapLoop(recent, c, last, 0, NewMap) : last \in {lastAssistantIdx(recent)}})
    ELSE NewMap

\* The system message that opens the history, with the character cards.
SystemMessage(characterInfo) ==
    [role |-> "system", content |-> <<"intro">> \o characterInfo \o <<"<history>">>]
\* The instruction message that closes it.
InstructionMessage ==
    [role |-> "user", content |-> <<"</history>", "instructions">>]

\* A merge that puts the mapped text before the turn's own.
MergePrepended(recent, map) ==
    [i \in 1..Len(recent) |->
        [role |-> IF recent[i].is_user THEN "user" ELSE "assistant",
         content |-> (IF (i - 1) \in DOMAIN map THEN map[i - 1] ELSE <<>>)
                     \o recent[i].mes]]

\* Now build the messages array with injected context
Merge(recent, map) ==
    [i \in 1..Len(recent) |->
        [role |-> IF recent[i].is_user THEN "user" ELSE "assistant",
         content |-> recent[i].mes
                     \o (IF (i - 1) \in DOMAIN map THEN map[i - 1] ELSE <<>>)]]

\* The constants generateSeparateUpdatePrompt reads before it awaits.
Locals(depth, userName, trackerConfig, hp) ==
    [depth |-> depth, userName |-> userName, trackerConfig |-> trackerConfig,
     historyPersistence |-> hp]
NoLocals == Locals(0, <<>>, JUndef, NoHistoryPersistence)

\* The run before: none, or its inputs and its map.
NoRun == [recording |-> FALSE, valid |-> FALSE, window |-> <<>>, locals |-> NoLocals,
          map |-> NewMap]

----------------------------------------------------------------------------
(* The tracker configuration and the snapshots the specifications use *)

\* The fields formatHistoricalTrackerData filters, by the name used here.
StatFields == {"hp", "mp"}
WidgetFields == {"date", "time", "weather", "temperature", "location", "recentEvents"}
Fields ==
    StatFields \cup {"status", "skills", "inventory", "quests"}
    \cup WidgetFields \cup {"appearance", "thoughts"}

\* {enabled, persistInHistory} of field f, with more keys before them
FlagsObj(ks, xs, f, persist, off, sparse) ==
    IF sparse
    THEN Obj(ks \o (IF f \in off THEN <<"enabled">> ELSE <<>>)
                \o (IF f \in persist THEN <<"persistInHistory">> ELSE <<>>),
             xs \o (IF f \in off THEN <<Bool(FALSE)>> ELSE <<>>)
                \o (IF f \in persist THEN <<Bool(TRUE)>> ELSE <<>>))
    ELSE Obj(ks \o <<"enabled", "persistInHistory">>,
             xs \o <<Bool(f \notin off), Bool(f \in persist)>>)

\* A tracker configuration: persistInHistory is true of the fields in persist,
\* enabled is false of the fields in off; a sparse one leaves the other flags out.
MkConfig(persist, off, sparse) ==
    Obj(<<"userStats", "infoBox", "presentCharacters">>,
        << Obj(<<"customStats", "statusSection", "skillsSection",
                 "inventoryPersistInHistory", "questsPersistInHistory">>,
               << Arr(<< FlagsObj(<<"id", "name">>, <<Str("hp"), Str("Health")>>,
                                  "hp", persist, off, sparse),
                         FlagsObj(<<"id", "name">>, <<Str("mp"), Str("Mana")>>,
                                  "mp", persist, off, sparse) >>),
                  FlagsObj(<<"showMoodEmoji", "customFields">>,
                           <<Bool(TRUE), Arr(<<Str("Conditions")>>)>>,
                           "status", persist, off, sparse),
                  FlagsObj(<<>>, <<>>, "skills", persist, off, sparse),
                  Bool("inventory" \in persist),
                  Bool("quests" \in persist) >>),
           Obj(<<"widgets">>,
               << Obj(<<"date", "time", "weather", "temperature", "location",
                        "recentEvents">>,
                      << FlagsObj(<<>>, <<>>, "date", persist, off, sparse),
                         FlagsObj(<<>>, <<>>, "time", persist, off, sparse),
                         FlagsObj(<<>>, <<>>, "weather", persist, off, sparse),
                         FlagsObj(<<>>, <<>>, "temperature", persist, off, sparse),
                         FlagsObj(<<>>, <<>>, "location", persist, off, sparse),
                         FlagsObj(<<>>, <<>>, "recentEvents", persist, off, sparse) >>) >>),
           Obj(<<"customFields", "thoughts">>,
               << Arr(<< FlagsObj(<<"id", "name">>,
                                  <<Str("appearance"), Str("Appearance")>>,
                                  "appearance", persist, off, sparse) >>),
                  FlagsObj(<<>>, <<>>, "thoughts", persist, off, sparse) >>) >>)

\* The object of the configuration that holds field f's flags (undefined if missing).
FlagHolder(cfg, f) ==
    LET stat(i) == LET cs == OptGet(OptGet(cfg, "userStats"), "customStats")
                   IN IF IsArray(cs) /\ Len(cs.items) >= i THEN cs.items[i] ELSE JUndef
        cf == OptGet(OptGet(cfg, "presentCharacters"), "customFields")
    IN CASE f = "hp" -> stat(1)
         [] f = "mp" -> stat(2)
         [] f = "status" -> OptGet(OptGet(cfg, "userStats"), "statusSection")
         [] f = "skills" -> OptGet(OptGet(cfg, "userStats"), "skillsSection")
         [] f \in WidgetFields -> OptGet(OptGet(OptGet(cfg, "infoBox"), "widgets"), f)
         [] f = "appearance" -> IF IsArray(cf) /\ Len(cf.items) >= 1
                                THEN cf.items[1] ELSE JUndef
         [] f = "thoughts" -> OptGet(OptGet(cfg, "presentCharacters"), "thoughts")
         [] OTHER -> JUndef
\* Field f's persistInHistory flag, as the configuration stores it.
PersistFlag(cfg, f) ==
    CASE f = "inventory" -> OptGet(OptGet(cfg, "userStats"), "inventoryPersistInHistory")
      [] f = "quests" -> OptGet(OptGet(cfg, "userStats"), "questsPersistInHistory")
      [] OTHER -> OptGet(FlagHolder(cfg, f), "persistInHistory")
\* Field f's enabled flag (the inventory and the quests have none).
EnabledFlag(cfg, f) == OptGet(FlagHolder(cfg, f), "enabled")
PersistSet(cfg) == {f \in Fields : IsTrue(PersistFlag(cfg, f))}
OffSet(cfg) == {f \in Fields : IsFalse(EnabledFlag(cfg, f))}
IsSparse(cfg) == OptGet(FlagHolder(cfg, "date"), "enabled").t = "undef"
                 /\ OptGet(FlagHolder(cfg, "date"), "persistInHistory").t = "undef"
\* The configuration without its section k.
DropSection(cfg, k) ==
    LET keep == SelectSeq([i \in 1..Len(cfg.keys) |-> i], LAMBDA i : cfg.keys[i] # k)
    IN Obj([j \in 1..Len(keep) |-> cfg.keys[keep[j]]],
           [j \in 1..Len(keep) |-> cfg.items[keep[j]]])
Sections == {"userStats", "infoBox", "presentCharacters"}
HasAllSections(cfg) == \A k \in Sections : Has(cfg, k)

\* A player-stats payload with every field the historical formatter reads.
FullUserStats ==
    Obj(<<"stats", "status", "skills", "inventory", "quests">>,
        << Arr(<< Obj(<<"id", "name", "value">>, <<Str("hp"), Str("HP"), Num(7)>>),
                  Obj(<<"id", "value">>, <<Str("mp"), Num(3)>>) >>),
           Obj(<<"mood", "conditions">>, <<Str("Happy"), Str("Tired")>>),
           Arr(<<Str("Combat"), Obj(<<"name">>, <<Str("Magic")>>)>>),
           Obj(<<"onPerson", "clothing">>,
               << Arr(<<Obj(<<"name", "quantity">>, <<Str("Potion"), Num(2)>>)>>),
                  Arr(<<Str("Cloak")>>) >>),
           Obj(<<"main">>, <<Obj(<<"title">>, <<Str("Rescue")>>)>>) >>)
\* A scene-info payload with every widget.
FullInfoBox ==
    Obj(<<"date", "time", "weather", "temperature", "location", "recentEvents">>,
        << Str("Monday"),
           Obj(<<"start", "end">>, <<Str("1"), Str("2")>>),
           Obj(<<"emoji", "forecast">>, <<Str("Sun"), Str("Clear")>>),
           Obj(<<"value", "locked">>, <<Str("Warm"), Bool(TRUE)>>),
           Str("Forest"),
           Arr(<<Str("Storm")>>) >>)
\* A character roster of one character.
FullCharacters ==
    Arr(<< Obj(<<"name", "details", "thoughts">>,
               << Str("Mira"),
                  Obj(<<"appearance">>, <<Str("Tall")>>),
                  Obj(<<"content">>, <<Str("Curious")>>) >>) >>)
FullSnapshot == TrackerData(Json(FullUserStats), Json(FullInfoBox), Live(FullCharacters))

\* Snapshots one category of which fails: legacy text, an unexpected shape.
FailingSnapshots ==
    { TrackerData(Legacy(<<"Health", ":", " ", "7">>), Json(FullInfoBox),
                  Live(FullCharacters)),
      TrackerData(Json(FullUserStats), Legacy(<<"Date", ":", " ", "Monday">>),
                  Live(FullCharacters)),
      TrackerData(Json(FullUserStats), Json(FullInfoBox), Legacy(<<"Mira">>)),
      TrackerData(Json(JNull), Json(FullInfoBox), Live(FullCharacters)),
      TrackerData(Json(Obj(<<"stats">>, <<Arr(<<JNull>>)>>)), Json(FullInfoBox),
                  Live(FullCharacters)),
      TrackerData(Json(FullUserStats), Json(JNull), Live(FullCharacters)),
      TrackerData(Json(FullUserStats), Json(FullInfoBox), Json(Num(5))),
      TrackerData(Json(FullUserStats), Json(FullInfoBox),
                  Json(Obj(<<"characters">>, <<Num(5)>>))) }
\* Snapshots some category of which is absent.
PartialSnapshots ==
    { TrackerData(Absent, Json(FullInfoBox), Absent),
      TrackerData(Json(FullUserStats), Absent, Absent),
      TrackerData(Absent, Absent, Json(FullCharacters)) }

----------------------------------------------------------------------------
(* The historical formatter's specification: the configuration's flags, the *)
(* snapshot and useAllEnabled change, and every step formats the snapshot.  *)

\* The most flags (persistInHistory set, enabled cleared) of a configuration.
MaxFlags == 2

HistFormat(data, cfg, useAll) ==
    /\ histData' = data
    /\ settings' = cfg
    /\ histUseAll' = useAll
    /\ histOut' = formatHistoricalTrackerData(data, cfg, name1, useAll)
    /\ UNCHANGED <<name1, chatVars, runVars, ctxVars, instrVars, prevVars, weatherVars>>

\* The flags of a configuration, read back from it.
FlagsOf(cfg) == [persist |-> PersistSet(cfg), off |-> OffSet(cfg), sparse |-> IsSparse(cfg)]
FlagCount(flags) == Cardinality(flags.persist) + Cardinality(flags.off)

\* The user ticks a field's "persist in history" box.
HistPersist ==
    /\ HasAllSections(settings)
    /\ \E flags \in {FlagsOf(settings)} :
          /\ FlagCount(flags) < MaxFlags
          /\ FlagCount(flags) = 0 \/ histData = FullSnapshot
          /\ \E f \in Fields \ flags.persist :
                \E cfg \in {MkConfig(flags.persist \cup {f}, flags.off, flags.sparse)} :
                    HistFormat(histData, cfg, histUseAll)

\* The user disables a field.
HistDisable ==
    /\ HasAllSections(settings)
    /\ \E flags \in {FlagsOf(settings)} :
          /\ FlagCount(flags) < MaxFlags
          /\ FlagCount(flags) = 0 \/ histData = FullSnapshot
          /\ \E f \in (Fields \ {"inventory", "quests"}) \ flags.off :
                \E cfg \in {MkConfig(flags.persist, flags.off \cup {f}, flags.sparse)} :
                    HistFormat(histData, cfg, histUseAll)

\* A configuration that lacks a section (an older preset).
HistDropSection ==
    /\ HasAllSections(settings)
    /\ FlagCount(FlagsOf(settings)) <= 1
    /\ \E k \in Sections :
          \E cfg \in {DropSection(settings, k)} : HistFormat(histData, cfg, histUseAll)

\* Another message's snapshot is formatted.
HistSnapshot ==
    /\ histData = FullSnapshot
    /\ FlagCount(FlagsOf(settings)) <= 1
    /\ \E d \in FailingSnapshots \cup PartialSnapshots :
          HistFormat(d, settings, histUseAll)

HistInit ==
    /\ histData = FullSnapshot
    /\ histUseAll \in BOOLEAN
    /\ settings \in {MkConfig({}, {}, sp) : sp \in BOOLEAN}
    /\ name1 = <<"User">>
    /\ histOut = formatHistoricalTrackerData(histData, settings, name1, histUseAll)
    /\ field = JNull
    /\ resolved = <<>>
    /\ resolvedHist = <<>>
    /\ chat = <<>>
    /\ updateDepth = 0
    /\ historyPersistence = NoHistoryPersistence
    /\ pc = "idle"
    /\ locals = NoLocals
    /\ recentMessages = <<>>
    /\ contextInjectionMap = NewMap
    /\ messages = <<>>
    /\ lastRun = NoRun
    /\ ctxData = Absent
    /\ ctxType = ""
    /\ ctxOut = Ok(<<>>)
    /\ extensionSettings = ExtSettings(FALSE, FALSE, FALSE)
    /\ jsonHelpers = JsonHelpers(<<>>)
    /\ instrArgs = InstrArgs(TRUE, TRUE, TRUE)
    /\ instructions = <<>>
    /\ committedTrackerData = TrackerData(Absent, Absent, Absent)
    /\ promptText = <<>>
    /\ example = <<>>
    /\ weatherSettings = [enableDynamicWeather |-> FALSE, weatherForeground |-> FALSE,
                          weatherBackground |-> FALSE]
    /\ infoBoxData = Absent
    /\ weatherContainer = JNull
    /\ currentWeatherType = JNull
    /\ currentTimeOfDay = JNull
    /\ currentHour = JNull
    /\ body = <<>>
    /\ weatherCall = ""

HistNext ==
    \/ HistPersist /\ UNCHANGED resolveVars
    \/ HistDisable /\ UNCHANGED resolveVars
    \/ HistDropSection /\ UNCHANGED resolveVars
    \/ HistSnapshot /\ UNCHANGED resolveVars

SpecHist == HistInit /\ [][HistNext]_vars

----------------------------------------------------------------------------
(* Properties of the historical formatter *)

\* The labels the formatter writes before field f's value.
FieldLabels(f) ==
    CASE f = "hp" -> {"HP"}
      [] f = "mp" -> {"Mana"}
      [] f = "status" -> {"Mood", "Conditions"}
      [] f = "skills" -> {"Skills"}
      [] f = "inventory" -> {"On", "Clothing"}
      [] f = "quests" -> {"Quest"}
      [] f = "date" -> {"Date"}
      [] f = "time" -> {"Time"}
      [] f = "weather" -> {"Weather"}
      [] f = "temperature" -> {"Temp"}
      [] f = "location" -> {"Location"}
      [] f = "recentEvents" -> {"Events"}
      [] f = "appearance" -> {"Appearance"}
      [] f = "thoughts" -> {"Thinking"}
\* Field f is in the formatted text.
Appears(f, out) == \E i \in 1..Len(out) : out[i] \in FieldLabels(f)
\* The filter the configuration's flags describe.
PassesFilter(f, cfg, useAll) ==
    IF useAll THEN ~IsFalse(EnabledFlag(cfg, f)) ELSE IsTrue(PersistFlag(cfg, f))

\* C6: a field appears in the output of formatHistoricalTrackerData only if
\* useAllEnabled is true and its enabled flag is not false, or useAllEnabled is
\* false and its persistInHistory flag is true; with useAllEnabled false and no
\* persistInHistory flag true the output is empty.
C6_OnlyFilteredFieldsAppear ==
    /\ \A f \in Fields : Appears(f, histOut) => PassesFilter(f, settings, histUseAll)
    /\ (~histUseAll /\ \A f \in Fields : ~IsTrue(PersistFlag(settings, f)))
          => histOut = <<>>

\* Of a full snapshot, with useAllEnabled false, exactly the two persisted fields
\* (a widget and the inventory) have been written.
C6_Witness ==
    /\ histData = FullSnapshot
    /\ ~histUseAll
    /\ PersistSet(settings) = {"date", "inventory"}
    /\ \A f \in Fields : Appears(f, histOut) <=> f \in {"date", "inventory"}

\* The category (1 userStats, 2 infoBox, 3 characterThoughts) of field f.
CategoryOf(f) ==
    IF f \in WidgetFields THEN 2
    ELSE IF f \in {"appearance", "thoughts"} THEN 3
    ELSE 1
\* Category c of the formatted snapshot fails: its payload does not parse, has
\* an unexpected shape, or its configuration entry is absent.
CategoryFails(c) == HistParts(histData, settings, name1, histUseAll)[c].threw
\* Category c of the formatted snapshot carries every field.
CategoryFull(c) ==
    CASE c = 1 -> histData.userStats = Json(FullUserStats)
      [] c = 2 -> histData.infoBox = Json(FullInfoBox)
      [] c = 3 -> histData.characterThoughts = Live(FullCharacters)

\* C7: a failure of one category never suppresses its siblings: when a category
\* fails, every field of another category that does not fail, has data and
\* passes the filter still appears in the output.
C7_SiblingsSurvive ==
    \A c \in 1..3 : \A f \in Fields :
        ( /\ CategoryFails(c)
          /\ CategoryOf(f) # c
          /\ ~CategoryFails(CategoryOf(f))
          /\ CategoryFull(CategoryOf(f))
          /\ PassesFilter(f, settings, histUseAll) )
        => Appears(f, histOut)

----------------------------------------------------------------------------
(* The specification of generateSeparateUpdatePrompt: messages join the    *)
(* chat, also while a run awaits the character cards; a run reads its      *)
(* settings, awaits, then slices the chat, builds the map and merges.      *)

\* The most messages of the chat.
MaxChat == 4

\* A snapshot of the scene, and one of the player's skills.
SceneSnapshot ==
    TrackerData(Absent,
                Json(Obj(<<"date", "location">>, <<Str("Monday"), Str("Forest")>>)),
                Absent)
SkillsSnapshot ==
    TrackerData(Json(Obj(<<"skills">>, <<Arr(<<Str("Combat")>>)>>)), Absent, Absent)

\* The messages of the chat: a user message, a hidden user message, a hidden
\* assistant message with a snapshot, an assistant message without a snapshot,
\* one with a scene snapshot in message.extra, and one on its second swipe with
\* a skills snapshot in swipe_info.
MessageKinds == {"U", "H", "N", "A0", "A1", "A2"}
MessageOf(kind) ==
    CASE kind = "U" -> Message(TRUE, FALSE, <<"hello">>, JUndef, NoSwipes, <<>>)
      [] kind = "H" -> Message(TRUE, TRUE, <<"aside">>, JUndef, NoSwipes, <<>>)
      [] kind = "N" -> Message(FALSE, TRUE, <<"hidden">>, Num(0),
                               Swipes(<<SkillsSnapshot>>), <<>>)
      [] kind = "A0" -> Message(FALSE, FALSE, <<"reply">>, Num(0), NoSwipes, <<NoSwipes>>)
      [] kind = "A1" -> Message(FALSE, FALSE, <<"scene">>, JUndef,
                                Swipes(<<SceneSnapshot>>), <<>>)
      [] kind = "A2" -> Message(FALSE, FALSE, <<"skills">>, Num(1), NoSwipes,
                                <<NoSwipes, Swipes(<<NoTrackerData, SkillsSnapshot>>)>>)

\* The history persistence settings of the runs.
HistorySettings ==
    { HistoryPersistence(TRUE, "assistant_message_end", FALSE, <<>>),
      HistoryPersistence(TRUE, "user_message_end", TRUE, <<"Earlier:">>),
      HistoryPersistence(TRUE, "", TRUE, <<>>),
      HistoryPersistence(FALSE, "user_message_end", TRUE, <<>>) }

\* What getCharacterCardsInfo resolves to.
CharacterInfos == {<<"cards">>}

\* A run suspended after its merge too, before it returns.
SuspendedAnywhere == pc \in {"idle", "awaiting", "done"}

\* Where the other flows run: between the runs, and while a run is suspended
\* at its only await, that of getCharacterCardsInfo().
Suspended == pc \in {"idle", "awaiting"}

\* A message of one of the kinds joins the chat.
AppendOf(kinds) ==
    \E kind \in kinds :
        /\ Suspended
        /\ Len(chat) < MaxChat
        /\ chat' = Append(chat, MessageOf(kind))
        /\ UNCHANGED <<updateDepth, historyPersistence, runVars, settingsVars,
                       resolveVars, histVars, ctxVars, instrVars, prevVars, weatherVars>>

\* A message joins the chat.
AppendMessage == AppendOf(MessageKinds)

\* generateSeparateUpdatePrompt up to its await of getCharacterCardsInfo()
Begin ==
    /\ pc = "idle"
    /\ pc' = "awaiting"
    /\ locals' = Locals(updateDepth, name1, settings, historyPersistence)
    /\ UNCHANGED <<recentMessages, contextInjectionMap, messages, lastRun,
                   chatVars, settingsVars, resolveVars, histVars, ctxVars, instrVars, prevVars, weatherVars>>

\* generateSeparateUpdatePrompt from the await to its return statement
Resume ==
    \E characterInfo \in CharacterInfos :
        \E recent \in {SliceLast(chat, locals.depth)} :
            \E map \in {BuildMap(recent, locals)} :
                /\ pc = "awaiting"
                /\ pc' = "done"
                /\ recentMessages' = recent
                /\ contextInjectionMap' = map
                /\ messages' = <<SystemMessage(characterInfo)>> \o Merge(recent, map)
                               \o <<InstructionMessage>>
                /\ UNCHANGED <<locals, lastRun, chatVars, settingsVars,
                               resolveVars, histVars, ctxVars, instrVars, prevVars, weatherVars>>

\* The messages are returned and the run's frame is gone.
Return ==
    /\ pc = "done"
    /\ pc' = "idle"
    /\ locals' = NoLocals
    /\ recentMessages' = <<>>
    /\ contextInjectionMap' = NewMap
    /\ messages' = <<>>
    /\ lastRun' = IF lastRun.recording
                  THEN [recording |-> TRUE, valid |-> TRUE, window |-> recentMessages,
                        locals |-> locals, map |-> contextInjectionMap]
                  ELSE lastRun
    /\ UNCHANGED <<chatVars, settingsVars, resolveVars, histVars, ctxVars, instrVars, prevVars, weatherVars>>

Init ==
    /\ chat = <<>>
    /\ updateDepth = MaxChat
    /\ historyPersistence \in HistorySettings
    /\ settings = MkConfig({"skills"}, {}, FALSE)
    /\ name1 = <<"User">>
    /\ pc = "idle"
    /\ locals = NoLocals
    /\ recentMessages = <<>>
    /\ contextInjectionMap = NewMap
    /\ messages = <<>>
    /\ lastRun = NoRun
    /\ ctxData = Absent
    /\ ctxType = ""
    /\ ctxOut = Ok(<<>>)
    /\ extensionSettings = ExtSettings(FALSE, FALSE, FALSE)
    /\ jsonHelpers = JsonHelpers(<<>>)
    /\ instrArgs = InstrArgs(TRUE, TRUE, TRUE)
    /\ instructions = <<>>
    /\ committedTrackerData = TrackerData(Absent, Absent, Absent)
    /\ promptText = <<>>
    /\ example = <<>>
    /\ weatherSettings = [enableDynamicWeather |-> FALSE, weatherForeground |-> FALSE,
                          weatherBackground |-> FALSE]
    /\ infoBoxData = Absent
    /\ weatherContainer = JNull
    /\ currentWeatherType = JNull
    /\ currentTimeOfDay = JNull
    /\ currentHour = JNull
    /\ body = <<>>
    /\ weatherCall = ""
    /\ field = JNull
    /\ resolved = <<>>
    /\ resolvedHist = <<>>
    /\ histData = NoTrackerData
    /\ histUseAll = FALSE
    /\ histOut = <<>>

Next ==
    \/ AppendMessage
    \/ Begin
    \/ Resume
    \/ Return

Spec == Init /\ [][Next]_vars

----------------------------------------------------------------------------
(* Properties of the injection map.  They read the state a run leaves when *)
(* it reaches its return statement (pc = "done").                          *)

\* The window's indexes, its model-authored turns (neither user nor system) and
\* its user-authored turns (user and not system).
WindowIdx == 0..(Len(recentMessages) - 1)
ModelTurns == {i \in WindowIdx : ~recentMessages[i + 1].is_user
                                 /\ ~recentMessages[i + 1].is_system}
UserTurns == {i \in WindowIdx : recentMessages[i + 1].is_user
                                /\ ~recentMessages[i + 1].is_system}
\* The greatest element of a non-empty set of indexes.
Greatest(S) == CHOOSE i \in S : \A j \in S : i >= j
LastModelTurn == IF ModelTurns = {} THEN -1 ELSE Greatest(ModelTurns)
\* The anchor of the run, and whether history persistence is on.
UserAnchor == locals.historyPersistence.injectionPosition = "user_message_end"
PersistenceOn == locals.historyPersistence.defined /\ locals.historyPersistence.enabled
\* The wrapped context of the snapshot of turn i (empty: no snapshot, or nothing
\* of it passes the filter).
ContextOf(i) ==
    Only({ IF formatted = <<>> THEN <<>>
           ELSE wrappedContext(formatted, locals.historyPersistence) :
           formatted \in {formattedContext(recentMessages[i + 1], locals)} })
\* The wrapped contexts of the window's turns, by index.
Contexts == [i \in WindowIdx |-> ContextOf(i)]
\* The contributing turns: model-authored, not the last one, with a context.
Contributing(cs) ==
    IF PersistenceOn
    THEN {i \in ModelTurns : i # LastModelTurn /\ cs[i] # <<>>}
    ELSE {}
\* The user turns before turn i.
UsersBefore(i) == {j \in UserTurns : j < i}
\* The turns that contribute to key k.
SourcesOf(cs, k) ==
    {i \in Contributing(cs) :
        IF UserAnchor THEN UsersBefore(i) # {} /\ Greatest(UsersBefore(i)) = k
        ELSE i = k}

\* C1: the injection map never has an entry whose key is the index of the last
\* model-authored turn of the window.
C1_LastModelTurnNotKeyed ==
    pc = "done" => LastModelTurn \notin DOMAIN contextInjectionMap

\* Under the assistant anchor the last model turn carries a skills snapshot that
\* passes the filter, an earlier one is keyed, and the last one is not.
C1_Witness ==
    /\ pc = "done"
    /\ PersistenceOn
    /\ ~UserAnchor
    /\ LastModelTurn >= 1
    /\ recentMessages[LastModelTurn + 1] = MessageOf("A2")
    /\ DOMAIN contextInjectionMap # {}
    /\ LastModelTurn \notin DOMAIN contextInjectionMap

\* The run of the example: the window [user, model without snapshot, user, model
\* with a snapshot whose skills are persisted], assistant anchor, not all enabled.
ExampleRun ==
    /\ pc = "done"
    /\ recentMessages = <<MessageOf("U"), MessageOf("A0"), MessageOf("U"), MessageOf("A2")>>
    /\ locals.historyPersistence
         = HistoryPersistence(TRUE, "assistant_message_end", FALSE, <<>>)

\* C2 as stated: in the example the map has exactly one entry, keyed by the last
\* turn's index 3, and its text holds only persisted fields.
C2_ExampleOneEntry ==
    ExampleRun =>
        /\ DOMAIN contextInjectionMap = {3}
        /\ \A f \in Fields :
              Appears(f, contextInjectionMap[3]) => IsTrue(PersistFlag(locals.trackerConfig, f))

\* C2: in the example the injection map has no entry: the only turn with a
\* snapshot is the last model turn, which the map leaves out.
C2_ExampleNoEntry ==
    ExampleRun => DOMAIN contextInjectionMap = {}

\* The example has run, its last turn's snapshot formats to a text, and the map
\* is empty.
C2_Witness ==
    /\ ExampleRun
    /\ formattedContext(recentMessages[4], locals) = <<"User", ":", " ", "Skills", ":", " ", "Combat">>
    /\ contextInjectionMap = NewMap

\* C3: the keys of the map are the targets of the contributing turns: under the
\* assistant anchor the turn's own index, under the user anchor the greatest
\* index of a user turn before it; a turn with no user turn before it adds no key.
C3_TargetKeys ==
    pc = "done" =>
        \E cs \in {Contexts} :
            /\ DOMAIN contextInjectionMap = {k \in WindowIdx : SourcesOf(cs, k) # {}}
            /\ UserAnchor => DOMAIN contextInjectionMap \subseteq UserTurns
            /\ ~UserAnchor => DOMAIN contextInjectionMap = Contributing(cs)

\* Under the user anchor one contributing turn has no user turn before it and
\* another has one; the map holds the key of the second only.
C3_Witness ==
    /\ pc = "done"
    /\ UserAnchor
    /\ \E cs \in {Contexts} :
          /\ \E i \in Contributing(cs) : UsersBefore(i) = {}
          /\ \E i \in Contributing(cs) : UsersBefore(i) # {}
    /\ Cardinality(DOMAIN contextInjectionMap) = 1

\* The wrapped contexts of the turns of S, concatenated by increasing index.
RECURSIVE ContextsOf(_, _)
ContextsOf(cs, S) ==
    IF S = {} THEN <<>>
    ELSE ContextsOf(cs, S \ {Greatest(S)}) \o cs[Greatest(S)]

\* C4: the entry of a key is the concatenation of the wrapped contexts of all
\* the turns that map to it, in increasing order of their index: a later
\* contribution neither overwrites nor drops an earlier one.
C4_EntriesConcatenate ==
    pc = "done" =>
        \E cs \in {Contexts} :
            \A k \in DOMAIN contextInjectionMap :
                contextInjectionMap[k] = ContextsOf(cs, SourcesOf(cs, k))

\* Two model turns with different contexts follow one user turn under the user
\* anchor, and the user turn's entry holds both.
C4_Witness ==
    /\ pc = "done"
    /\ UserAnchor
    /\ \E cs \in {Contexts} : \E k \in DOMAIN contextInjectionMap :
          /\ Cardinality(SourcesOf(cs, k)) = 2
          /\ \E i, j \in SourcesOf(cs, k) : cs[i] # cs[j]
          /\ Len(contextInjectionMap[k]) > Len(cs[Greatest(SourcesOf(cs, k))])

----------------------------------------------------------------------------
(* The specification of repeated runs: the chat starts with a user message *)
(* and a reply with a skills snapshot, replies join it, the user switches  *)
(* persona, and every run is recorded when it returns.                     *)

PersonaNames == {<<"User">>, <<"Alice">>}

\* The user switches persona: getContext().name1 changes.
ChangePersona ==
    \E name \in PersonaNames \ {name1} :
        /\ Suspended
        /\ name1' = name
        /\ UNCHANGED <<settings, chatVars, runVars, resolveVars, histVars, ctxVars,
                       instrVars, prevVars, weatherVars>>

RepeatInit ==
    /\ chat = <<MessageOf("U"), MessageOf("A2")>>
    /\ updateDepth = MaxChat
    /\ historyPersistence \in
          { HistoryPersistence(TRUE, "assistant_message_end", FALSE, <<>>),
            HistoryPersistence(TRUE, "user_message_end", TRUE, <<"Earlier:">>) }
    /\ settings = MkConfig({"skills"}, {}, FALSE)
    /\ name1 = <<"User">>
    /\ pc = "idle"
    /\ locals = NoLocals
    /\ recentMessages = <<>>
    /\ contextInjectionMap = NewMap
    /\ messages = <<>>
    /\ lastRun = [NoRun EXCEPT !.recording = TRUE]
    /\ ctxData = Absent
    /\ ctxType = ""
    /\ ctxOut = Ok(<<>>)
    /\ extensionSettings = ExtSettings(FALSE, FALSE, FALSE)
    /\ jsonHelpers = JsonHelpers(<<>>)
    /\ instrArgs = InstrArgs(TRUE, TRUE, TRUE)
    /\ instructions = <<>>
    /\ committedTrackerData = TrackerData(Absent, Absent, Absent)
    /\ promptText = <<>>
    /\ example = <<>>
    /\ weatherSettings = [enableDynamicWeather |-> FALSE, weatherForeground |-> FALSE,
                          weatherBackground |-> FALSE]
    /\ infoBoxData = Absent
    /\ weatherContainer = JNull
    /\ currentWeatherType = JNull
    /\ currentTimeOfDay = JNull
    /\ currentHour = JNull
    /\ body = <<>>
    /\ weatherCall = ""
    /\ field = JNull
    /\ resolved = <<>>
    /\ resolvedHist = <<>>
    /\ histData = NoTrackerData
    /\ histUseAll = FALSE
    /\ histOut = <<>>

RepeatNext ==
    \/ AppendOf({"A0", "A2"})
    \/ ChangePersona
    \/ Begin
    \/ Resume
    \/ Return

SpecRepeat == RepeatInit /\ [][RepeatNext]_vars

\* The run that has reached its return statement had the same window, tracker
\* config and persistence settings (the anchor among them) as the run before.
SameListedInputs ==
    /\ lastRun.valid
    /\ lastRun.window = recentMessages
    /\ lastRun.locals.trackerConfig = locals.trackerConfig
    /\ lastRun.locals.historyPersistence = locals.historyPersistence
\* The run has changed neither the chat its window is of nor the settings.
NothingChanged ==
    /\ recentMessages = SliceLast(chat, locals.depth)
    /\ settings = locals.trackerConfig
    /\ historyPersistence = locals.historyPersistence
    /\ updateDepth = locals.depth

\* C5 as stated: two runs over identical (window, tracker config, persistence
\* settings, anchor) produce identical maps, and a run changes nothing.
C5_SameInputsSameMap ==
    pc = "done" =>
        /\ SameListedInputs => contextInjectionMap = lastRun.map
        /\ NothingChanged

\* C5: two runs over identical (window, tracker config, persistence settings,
\* anchor) and the same user name produce identical maps (same keys, same text
\* per key), and a run changes neither the chat nor the settings.
C5_SameInputsAndNameSameMap ==
    pc = "done" =>
        /\ (SameListedInputs /\ lastRun.locals.userName = locals.userName)
              => contextInjectionMap = lastRun.map
        /\ NothingChanged

\* A second run over the inputs and the user name of the first has built the
\* same map of one entry.
C5_Witness ==
    /\ pc = "done"
    /\ SameListedInputs
    /\ lastRun.locals.userName = locals.userName
    /\ DOMAIN contextInjectionMap # {}
    /\ contextInjectionMap = lastRun.map

----------------------------------------------------------------------------
(* The resolver's specification: field values are built one constructor at  *)
(* a time and every step resolves the value it has built with both         *)
(* resolvers.                                                              *)

\* The most nodes (scalars, arrays, objects) of a value nested in another.
MaxNested == 2
\* The most elements of an array.
MaxLen == 3
\* One key more than the generic fallback accepts.
MaxKeys == GenericMaxKeys + 1

Leaves ==
    {JNull, JStr(<<>>), Str("a"), Str("None"), Num(1), Bool(TRUE),
     Arr(<<>>), Obj(<<>>, <<>>)}
\* The first values of the objects that grow beyond two keys.
SmallLeaves == {JStr(<<>>), Str("a")}
\* The elements appended to an array.
ListLeaves == {JNull, JStr(<<>>), Str("b")}

\* The keys of the recognised shapes, then two keys no shape knows.
KeyOrder ==
    <<"value", "mood", "name", "quantity", "title", "start", "end",
      "emoji", "forecast", "locked", "x">>
Keys == {KeyOrder[i] : i \in 1..Len(KeyOrder)}
KeyIndex(k) == CHOOSE i \in 1..Len(KeyOrder) : KeyOrder[i] = k
\* The keys a value that is itself an array or an object is nested under.
NestKeys == {"name", "x"}
\* The value a key added to an object carries.
KeyVal(k) ==
    CASE k = "quantity" -> Num(3)
      [] k = "locked" -> Bool(TRUE)
      [] OTHER -> Str("v_" \o k)

RECURSIVE Size(_)
RECURSIVE SizeAll(_)
Size(v) == 1 + SizeAll(v.items)
SizeAll(xs) == IF xs = <<>> THEN 0 ELSE Size(Head(xs)) + SizeAll(Tail(xs))

IsLeaf(v) == v.items = <<>>

Resolve(v) ==
    /\ field' = v
    /\ resolved' = getValue(v)
    /\ resolvedHist' = getValueHistorical(v)
    /\ UNCHANGED <<settingsVars, histVars, chatVars, runVars, ctxVars, instrVars, prevVars, weatherVars>>

\* {value: field, locked: b}
ResolveWrap ==
    \E b \in BOOLEAN :
        /\ Size(field) <= MaxNested + 1
        /\ Resolve(Obj(<<"value", "locked">>, <<field, Bool(b)>>))

\* {k: field}
ResolveNest ==
    \E k \in Keys :
        /\ IsLeaf(field) \/ (k \in NestKeys /\ Size(field) <= MaxNested)
        /\ Resolve(Obj(<<k>>, <<field>>))

\* {...field, k: KeyVal(k)}: a second key is any key, later ones follow KeyOrder
ResolveAddKey ==
    \E k \in Keys :
        /\ field.t = "obj"
        /\ Len(field.keys) >= 1
        /\ Len(field.keys) < MaxKeys
        /\ ~Has(field, k)
        /\ \/ Len(field.keys) = 1
           \/ /\ field.items[1] \in SmallLeaves
              /\ KeyIndex(k) > KeyIndex(field.keys[Len(field.keys)])
        /\ Resolve(Obj(Append(field.keys, k), Append(field.items, KeyVal(k))))

\* [field]
ResolveList ==
    /\ Size(field) <= MaxNested
    /\ Resolve(Arr(<<field>>))

\* [...field, l]
ResolveAppend ==
    \E l \in ListLeaves :
        /\ field.t = "arr"
        /\ Len(field.items) >= 1
        /\ Len(field.items) < MaxLen
        /\ Resolve(Arr(Append(field.items, l)))

ResolveInit ==
    /\ field \in Leaves
    /\ resolved = getValue(field)
    /\ resolvedHist = getValueHistorical(field)
    /\ settings = MkConfig({}, {}, FALSE)
    /\ name1 = <<"User">>
    /\ histData = NoTrackerData
    /\ histUseAll = FALSE
    /\ histOut = <<>>
    /\ chat = <<>>
    /\ updateDepth = 0
    /\ historyPersistence = NoHistoryPersistence
    /\ pc = "idle"
    /\ locals = NoLocals
    /\ recentMessages = <<>>
    /\ contextInjectionMap = NewMap
    /\ messages = <<>>
    /\ lastRun = NoRun
    /\ ctxData = Absent
    /\ ctxType = ""
    /\ ctxOut = Ok(<<>>)
    /\ extensionSettings = ExtSettings(FALSE, FALSE, FALSE)
    /\ jsonHelpers = JsonHelpers(<<>>)
    /\ instrArgs = InstrArgs(TRUE, TRUE, TRUE)
    /\ instructions = <<>>
    /\ committedTrackerData = TrackerData(Absent, Absent, Absent)
    /\ promptText = <<>>
    /\ example = <<>>
    /\ weatherSettings = [enableDynamicWeather |-> FALSE, weatherForeground |-> FALSE,
                          weatherBackground |-> FALSE]
    /\ infoBoxData = Absent
    /\ weatherContainer = JNull
    /\ currentWeatherType = JNull
    /\ currentTimeOfDay = JNull
    /\ currentHour = JNull
    /\ body = <<>>
    /\ weatherCall = ""

ResolveNext ==
    \/ ResolveWrap
    \/ ResolveNest
    \/ ResolveAddKey
    \/ ResolveList
    \/ ResolveAppend

SpecResolve == ResolveInit /\ [][ResolveNext]_vars

----------------------------------------------------------------------------
(* Properties of the resolvers *)

\* {value: v, locked: b}
Wrapper(v, b) == Obj(<<"value", "locked">>, <<v, Bool(b)>>)
IsWrapperOf(w, b) ==
    /\ w.t = "obj"
    /\ w.keys = <<"value", "locked">>
    /\ w.items[2] = Bool(b)

\* C8: a wrapper {value: v, locked: true}, the wrapper {value: v, locked: false}
\* and v itself resolve to the same string with both resolvers, also when the
\* wrappers are nested: the resolved field, if a wrapper, resolved to the string of
\* its value, and wrapping it once or twice more, locked or not, changes nothing.
C8_LockedFlagIgnored ==
    /\ \A b \in BOOLEAN :
          IsWrapperOf(field, b) =>
              /\ resolved = getValue(field.items[1])
              /\ resolvedHist = getValueHistorical(field.items[1])
              /\ resolved = getValue(Wrapper(field.items[1], ~b))
              /\ resolvedHist = getValueHistorical(Wrapper(field.items[1], ~b))
    /\ \A b, c \in BOOLEAN :
          /\ getValue(Wrapper(field, b)) = resolved
          /\ getValueHistorical(Wrapper(field, b)) = resolvedHist
          /\ getValue(Wrapper(Wrapper(field, b), c)) = resolved
          /\ getValueHistorical(Wrapper(Wrapper(field, b), c)) = resolvedHist

\* An unlocked wrapper around a locked wrapper around a string has resolved to
\* the string.
C8_Witness ==
    /\ IsWrapperOf(field, FALSE)
    /\ IsWrapperOf(field.items[1], TRUE)
    /\ field.items[1].items[1] = Str("a")
    /\ resolved = <<"a">>
    /\ resolvedHist = resolved

\* A record that no rule of the resolver takes: no "value", "mood", "name" or
\* "title" key, not both "start" and "end", not both "emoji" and "forecast", and
\* no keys or more than the generic fallback renders.
IsUnknownShape(v) ==
    /\ v.t = "obj"
    /\ \A k \in {"value", "mood", "name", "title"} : ~Has(v, k)
    /\ ~(Has(v, "start") /\ Has(v, "end"))
    /\ ~(Has(v, "emoji") /\ Has(v, "forecast"))
    /\ Len(v.keys) \notin 1..GenericMaxKeys

IsString(str) == \A i \in 1..Len(str) : str[i] \in STRING

C10_RulePriority ==
    IF IsNullish(field) THEN resolved = <<>>
    ELSE IF field.t = "obj" /\ Has(field, "value")
         THEN resolved = getValue(Get(field, "value"))
    ELSE IF field.t \in {"str", "num", "bool"} THEN resolved = JSString(field)
    ELSE IF field.t = "arr" THEN resolved = ListText(field)
    ELSE IF Has(field, "mood") THEN resolved = MoodText(field)
    ELSE IF Has(field, "name") THEN resolved = NameText(field)
    ELSE IF Has(field, "title") THEN resolved = TitleText(field)
    ELSE IF Has(field, "start") /\ Has(field, "end") THEN resolved = RangeText(field)
    ELSE IF Has(field, "emoji") /\ Has(field, "forecast")
         THEN resolved = WeatherText(field)
    ELSE IF Len(field.keys) \in 1..GenericMaxKeys THEN resolved = GenericText(field)
    ELSE resolved = <<>>

\* A record with "name", "start" and "end" has resolved to its name, and the
\* time range it also matches would have read otherwise.
C10_Witness ==
    /\ field.t = "obj"
    /\ field.keys = <<"name", "start", "end">>
    /\ resolved = <<"a">>
    /\ RangeText(field) # resolved

\* The resolved values of the sub-fields of a record other than key k, in key
\* order, without those in the set dropped.
OthersOf(v, k, dropped) ==
    SelectSeq([i \in 1..Len(v.keys) |->
                  IF v.keys[i] = k THEN <<>> ELSE getValue(v.items[i])],
              LAMBDA txt : txt \notin dropped)

\* A record the status rule takes: key "mood", and no key "value".
IsStatusLike(v) == v.t = "obj" /\ Has(v, "mood") /\ ~Has(v, "value")

\* C11 as stated: a status-like record resolves to its mood followed by the
\* resolved value of every other non-empty sub-field, in key order, joined with
\* " - ", and no non-empty sub-field is left out.
C11_AllNonEmptySubFields ==
    IsStatusLike(field) =>
        resolved = Join(SelectSeq(<<getValue(Get(field, "mood"))>>, LAMBDA m : m # <<>>)
                        \o OthersOf(field, "mood", {<<>>}), DashSp)

\* C11: a status-like record resolves to its mood (when non-empty) followed by
\* the resolved value of every other sub-field that is non-empty and does not
\* read "None", in key order, joined with " - ".
C11_SubFieldsButNone ==
    IsStatusLike(field) =>
        resolved = Join(SelectSeq(<<getValue(Get(field, "mood"))>>, LAMBDA m : m # <<>>)
                        \o OthersOf(field, "mood", {<<>>, <<"None">>}), DashSp)

\* A status record whose first sub-field reads "None" has resolved to its mood
\* alone.
C11_Witness ==
    /\ field.t = "obj"
    /\ field.keys = <<"x", "mood">>
    /\ field.items[1] = Str("None")
    /\ resolved = <<"v_mood">>

\* A record none of the recognised shapes takes.
IsGenericShape(v) ==
    /\ v.t = "obj"
    /\ \A k \in {"value", "mood", "name", "title"} : ~Has(v, k)
    /\ ~(Has(v, "start") /\ Has(v, "end"))
    /\ ~(Has(v, "emoji") /\ Has(v, "forecast"))

\* C12 as stated: a record of no recognised shape with 1 to 3 keys resolves to
\* its "key: value" pairs joined by ", ", and to "" with 0 or more than 3 keys.
C12_AllPairs ==
    IsGenericShape(field) =>
        IF Len(field.keys) \in 1..3
        THEN resolved = Join([i \in 1..Len(field.keys) |->
                                <<field.keys[i]>> \o <<":", " ">>
                                \o getValue(field.items[i])], <<",", " ">>)
        ELSE resolved = <<>>

\* C12: a record of no recognised shape with 1 to 3 keys resolves to the
\* "key: value" pairs of its keys whose value resolves to a non-empty string,
\* joined by ", " in key order (to "" when there is none), and to "" with 0
\* keys or more than 3 keys.
C12_NonEmptyPairs ==
    IsGenericShape(field) =>
        IF Len(field.keys) \in 1..3
        THEN resolved =
                Join(SelectSeq([i \in 1..Len(field.keys) |->
                                   IF getValue(field.items[i]) = <<>> THEN <<>>
                                   ELSE <<field.keys[i]>> \o <<":", " ">>
                                        \o getValue(field.items[i])],
                               LAMBDA pair : pair # <<>>), <<",", " ">>)
        ELSE resolved = <<>>

\* A record of two keys, the first with an empty value, has resolved to the
\* pair of the second alone.
C12_Witness ==
    /\ IsGenericShape(field)
    /\ field.keys = <<"x", "locked">>
    /\ field.items[1] = JStr(<<>>)
    /\ resolved = <<"locked", ":", " ", "true">>

\* C13: a list resolves to the resolved values of its elements, without those
\* that resolve to "", joined with ", " in list order; the empty list and a
\* list all of whose elements resolve to "" resolve to "".
C13_ListDropsEmpty ==
    field.t = "arr" =>
        /\ resolved = Join(SelectSeq([i \in 1..Len(field.items) |->
                                         getValue(field.items[i])],
                                     LAMBDA txt : txt # <<>>), <<",", " ">>)
        /\ (\A i \in 1..Len(field.items) : getValue(field.items[i]) = <<>>)
              => resolved = <<>>

\* The list ["a", "", "b"] has resolved to "a, b".
C13_Witness ==
    /\ field = Arr(<<Str("a"), JStr(<<>>), Str("b")>>)
    /\ resolved = <<"a", ",", " ", "b">>

----------------------------------------------------------------------------
(* The contextual formatter's specification: a payload of a category is     *)
(* started (empty, legacy text, or an empty object or list), fields and     *)
(* characters are added to it, and every step formats it.                   *)

\* The most fields of a player-stats or scene-info payload.
MaxFields == 2
\* The most characters of a roster.
MaxChars == 2

\* trackerConfig: userStats.statsDisplayMode and userStats.customStats
CtxConfig(mode, customStats) ==
    Obj(<<"userStats">>,
        <<Obj(<<"statsDisplayMode", "customStats">>, <<mode, customStats>>)>>)
CtxCustomStats ==
    Arr(<< Obj(<<"id", "maxValue">>, <<Str("hp"), Num(10)>>),
           Obj(<<"id", "maxValue">>, <<Str("luck"), Num(0)>>) >>)
\* No configuration, the two display modes, and a list with a null entry.
CtxConfigs ==
    { JUndef,
      CtxConfig(Str("number"), CtxCustomStats),
      CtxConfig(Str("percentage"), CtxCustomStats),
      CtxConfig(Str("number"), Arr(<<JNull>>)) }

\* The payloads a category starts from.
CtxStarts ==
    { Absent, Legacy(<<>>), Legacy(<<"Health", ":", " ", "7">>),
      Live(JNull), Json(JNull), Json(Num(5)),
      Live(Obj(<<>>, <<>>)), Json(Obj(<<>>, <<>>)),
      Live(Arr(<<>>)), Json(Arr(<<>>)) }

\* The keys of a player-stats payload, in the order they are added, and the
\* values each may carry.
CtxStatKeys == <<"stats", "health", "luck", "status", "mood", "skills", "inventory", "quests">>
CtxStatValues(k) ==
    CASE k = "stats" ->
            { Arr(<<Obj(<<"id", "name", "value">>, <<Str("hp"), Str("HP"), Num(7)>>)>>),
              Arr(<< Obj(<<"id", "name", "value">>, <<Str("hp"), Str("HP"), Num(7)>>),
                     Obj(<<"id", "value">>, <<Str("mp"), Num(3)>>) >>),
              Arr(<< JNull, Obj(<<"name", "value">>, <<Str("Luck"), Str("1")>>),
                     Obj(<<"id", "name">>, <<Str("hp"), Str("HP")>>) >>),
              Arr(<<Obj(<<"value">>, <<Num(3)>>)>>),
              Arr(<<Obj(<<"id", "value">>, <<Num(5), Num(1)>>)>>),
              Arr(<<Obj(<<"name", "value">>, <<Num(5), Num(1)>>)>>),
              Num(4) }
      [] k = "health" -> {Num(5), JStr(<<>>)}
      [] k = "luck" -> {Num(2)}
      [] k = "status" ->
            { Str("Fine"), Obj(<<>>, <<>>),
              Obj(<<"mood", "conditions">>, <<Str("Happy"), Str("None")>>) }
      [] k = "mood" -> {Str("Happy")}
      [] k = "skills" ->
            { Arr(<<Str("Combat"), JNull>>), Str("Combat"),
              Obj(<<"Combat", "Magic">>, <<Num(5), JNull>>) }
      [] k = "inventory" ->
            { Obj(<<"onPerson", "clothing", "stored", "assets">>,
                  << Arr(<<Obj(<<"name", "quantity">>, <<Str("Potion"), Num(2)>>)>>),
                     Arr(<<JStr(<<>>)>>),
                     Obj(<<"Home">>, <<Arr(<<Str("Bed")>>)>>),
                     Arr(<<>>) >>),
              Num(1) }
      [] OTHER ->
            { Obj(<<"main", "optional">>, <<Str("Rescue"), Arr(<<Str("Fish")>>)>>),
              Obj(<<"main">>, <<Arr(<<Str("Rescue"), Str("Escape")>>)>>),
              Obj(<<"main">>, <<Obj(<<"title">>, <<Str("Rescue")>>)>>) }

\* The keys of a scene-info payload and the values each may carry.
CtxInfoKeys == {"location", "weather", "date", "time", "recentEvents", "hair_color"}
CtxInfoValues(k) ==
    CASE k = "location" ->
            { Str("Forest Clearing"),
              Obj(<<"value", "locked">>, <<JStr(<<>>), Bool(TRUE)>>) }
      [] k = "weather" ->
            {Obj(<<"emoji", "forecast">>, <<Str("Sun"), Str("Clear")>>), JStr(<<>>)}
      [] k = "date" -> {Obj(<<"value", "locked">>, <<Str("Monday"), Bool(TRUE)>>)}
      [] k = "time" -> {Obj(<<"start", "end">>, <<Str("1"), Str("2")>>), Arr(<<>>)}
      [] k = "recentEvents" -> {Arr(<<Str("Storm")>>), JNull}
      [] OTHER -> {Str("Red")}

\* The entries a roster may hold.
CtxChars ==
    { Obj(<<"name", "relationship", "thoughts">>,
          << Str("Mira"), Obj(<<"status">>, <<Str("Friendly")>>),
             Obj(<<"content">>, <<Str("Curious")>>) >>),
      Obj(<<"name", "relationship", "thoughts">>,
          <<Str("Bram"), Str("Wary"), Str("Hungry")>>),
      Obj(<<"name", "details", "relationship", "stats">>,
          << Obj(<<"value", "locked">>, <<Str("Mira"), Bool(FALSE)>>),
             Obj(<<"hair_color", "appearance">>, <<Str("Red"), JStr(<<>>)>>),
             Obj(<<"status">>, <<Str("Friendly")>>),
             Obj(<<"str", "dex">>, <<Num(3), JNull>>) >>),
      Obj(<<"relationship">>, <<Str("Wary")>>),
      Obj(<<"name", "relationship", "thoughts">>,
          <<Str("Bram"), Obj(<<"status">>, <<JStr(<<>>)>>), Obj(<<>>, <<>>)>>),
      Obj(<<"name">>, <<Str("Bram")>>),
      JNull,
      Num(5) }

\* The payload with data d, of the kind of payload p.
CtxWith(p, d) == IF p.kind = "json" THEN Json(d) ELSE Live(d)

\* formatTrackerDataForContext(jsonData, trackerType, userName) is called.
CtxFormat(jsonData, trackerType, cfg) ==
    /\ ctxData' = jsonData
    /\ ctxType' = trackerType
    /\ settings' = cfg
    /\ ctxOut' = formatTrackerDataForContext(jsonData, trackerType, name1, cfg)
    /\ UNCHANGED <<name1, resolveVars, histVars, chatVars, runVars, instrVars, prevVars, weatherVars>>

\* A category's payload is formatted as it starts.
CtxStart ==
    \E trackerType \in {"userStats", "infoBox", "characters"}, p \in CtxStarts :
        \E cfg \in (IF trackerType = "userStats" THEN CtxConfigs ELSE {JUndef}) :
            CtxFormat(p, trackerType, cfg)

\* A field is added to the player's stats.
CtxPutStat ==
    /\ ctxType = "userStats"
    /\ ctxData.data.t = "obj"
    /\ Len(ctxData.data.keys) < MaxFields
    /\ \E i \in 1..Len(CtxStatKeys) :
          /\ \A j \in 1..Len(ctxData.data.keys) :
                \E h \in 1..(i - 1) : CtxStatKeys[h] = ctxData.data.keys[j]
          /\ \E v \in CtxStatValues(CtxStatKeys[i]) :
                CtxFormat(CtxWith(ctxData, Obj(Append(ctxData.data.keys, CtxStatKeys[i]),
                                               Append(ctxData.data.items, v))),
                          ctxType, settings)

\* A field is added to the scene info.
CtxPutInfo ==
    /\ ctxType = "infoBox"
    /\ ctxData.data.t = "obj"
    /\ Len(ctxData.data.keys) < MaxFields
    /\ \E k \in CtxInfoKeys :
          /\ ~Has(ctxData.data, k)
          /\ \E v \in CtxInfoValues(k) :
                CtxFormat(CtxWith(ctxData, Obj(Append(ctxData.data.keys, k),
                                               Append(ctxData.data.items, v))),
                          ctxType, settings)

\* A character joins the roster.
CtxAddChar ==
    /\ ctxType = "characters"
    /\ ctxData.data.t = "arr"
    /\ Len(ctxData.data.items) < MaxChars
    /\ \E c \in CtxChars :
          CtxFormat(CtxWith(ctxData, Arr(Append(ctxData.data.items, c))), ctxType, settings)

CtxInit ==
    /\ ctxData = Absent
    /\ ctxType = "userStats"
    /\ settings = JUndef
    /\ name1 = <<"User">>
    /\ ctxOut = formatTrackerDataForContext(ctxData, ctxType, name1, settings)
    /\ field = JNull
    /\ resolved = <<>>
    /\ resolvedHist = <<>>
    /\ histData = NoTrackerData
    /\ histUseAll = FALSE
    /\ histOut = <<>>
    /\ chat = <<>>
    /\ updateDepth = 0
    /\ historyPersistence = NoHistoryPersistence
    /\ pc = "idle"
    /\ locals = NoLocals
    /\ recentMessages = <<>>
    /\ contextInjectionMap = NewMap
    /\ messages = <<>>
    /\ lastRun = NoRun
    /\ extensionSettings = ExtSettings(FALSE, FALSE, FALSE)
    /\ jsonHelpers = JsonHelpers(<<>>)
    /\ instrArgs = InstrArgs(TRUE, TRUE, TRUE)
    /\ instructions = <<>>
    /\ committedTrackerData = TrackerData(Absent, Absent, Absent)
    /\ promptText = <<>>
    /\ example = <<>>
    /\ weatherSettings = [enableDynamicWeather |-> FALSE, weatherForeground |-> FALSE,
                          weatherBackground |-> FALSE]
    /\ infoBoxData = Absent
    /\ weatherContainer = JNull
    /\ currentWeatherType = JNull
    /\ currentTimeOfDay = JNull
    /\ currentHour = JNull
    /\ body = <<>>
    /\ weatherCall = ""

CtxNext ==
    \/ CtxStart
    \/ CtxPutStat
    \/ CtxPutInfo
    \/ CtxAddChar

SpecCtx == CtxInit /\ [][CtxNext]_vars

----------------------------------------------------------------------------
(* Claims about the contextual formatter, checked under SpecCtx.            *)

\* seg stands in out from position i on
OccursAt(seg, out, i) ==
    /\ i + Len(seg) - 1 <= Len(out)
    /\ \A j \in 1..Len(seg) : out[i + j - 1] = seg[j]
Occurs(seg, out) == \E i \in 1..Len(out) : OccursAt(seg, out, i)

\* The payload is an empty snapshot of its category: absent, the empty string,
\* an empty object, or an empty list for the roster.
CtxIsEmpty ==
    \/ ctxData = Absent
    \/ ctxData = Legacy(<<>>)
    \/ ctxData.kind \in {"json", "object"} /\ ctxData.data = Obj(<<>>, <<>>)
    \/ /\ ctxType = "characters"
       /\ ctxData.kind \in {"json", "object"}
       /\ ctxData.data = Arr(<<>>)

\* C14: formatting an empty snapshot of any of the three categories (absent,
\* empty string, {}, or [] for the roster) returns the empty string.
C14_EmptySnapshotEmptyText == CtxIsEmpty => ctxOut.out = <<>>

\* C15: formatTrackerDataForContext never raises: whatever the payload, it
\* returns a string, and for a payload that does not parse the string is empty.
C15_NeverRaises ==
    /\ ctxOut.threw = FALSE
    /\ PayloadTruthy(ctxData) /\ ParseThrows(ctxData) => ctxOut.out = <<>>
\* A roster with a null entry, or a stat with a non-string id, failed inside
\* the try block and the empty string was returned.
C15_Witness ==
    /\ PayloadTruthy(ctxData)
    /\ \/ /\ ctxType = "characters"
          /\ ctxData.data.t = "arr"
          /\ \E i \in 1..Len(ctxData.data.items) : ctxData.data.items[i] = JNull
       \/ /\ ctxType = "userStats"
          /\ Get(ctxData.data, "stats") =
                Arr(<<Obj(<<"id", "value">>, <<Num(5), Num(1)>>)>>)
    /\ CtxTry(ctxData, ctxType, name1, settings).threw
    /\ ctxOut = Ok(<<>>)

\* C16: a missing or empty field contributes no line to the contextual
\* summary: no label is followed by an empty value, and no placeholder such
\* as "Unknown" stands in for a missing name.
C16_NoEmptyLabelNoPlaceholder ==
    /\ ~Occurs(<<":", " ", "\n">>, ctxOut.out)
    /\ ~Occurs(<<"Unknown">>, ctxOut.out)

\* The scene-info example: {location: "Forest Clearing", weather: {emoji, forecast: "Clear"}}
C17IsExample ==
    /\ ctxType = "infoBox"
    /\ ctxData.kind \in {"json", "object"}
    /\ ctxData.data =
          Obj(<<"location", "weather">>,
              << Str("Forest Clearing"),
                 Obj(<<"emoji", "forecast">>, <<Str("Sun"), Str("Clear")>>) >>)
C17TwoLines ==
    <<"Location", ":", " ", "Forest Clearing", "\n", "Weather", ":", " ", "Sun", " ", "Clear">>

\* C17 as stated: the example yields exactly the two lines, with nothing
\* before the first and nothing after the last.
C17_ExactTwoLines == C17IsExample => ctxOut.out = C17TwoLines
\* C17: the example yields the heading line "Info Box:" followed by the two
\* lines "Location: Forest Clearing" and "Weather: <emoji> Clear", each line
\* ended by a newline.
C17_HeadingAndTwoLines ==
    C17IsExample => ctxOut.out = <<"Info Box:", "\n">> \o C17TwoLines \o <<"\n">>
C17_Witness == C17IsExample /\ Occurs(C17TwoLines, ctxOut.out)

\* The stats list of the payload and the configuration it is printed under.
C18Stats == Get(ctxData.data, "stats")
C18Number ==
    StrictEq(OptGet(OptGet(settings, "userStats"), "statsDisplayMode"), Str("number"))
C18Named(stat) ==
    /\ stat.t = "obj"
    /\ Has(stat, "value")
    /\ Get(stat, "name").t = "str"
    /\ Get(stat, "name").s # <<>>
\* The maximum printed for a stat: the maxValue configured for its id, 100
\* when none is configured.
C18Max(stat) ==
    LET id == IF Truthy(Get(stat, "id")) THEN Get(stat, "id")
              ELSE JStr(ToLowerCase(Get(stat, "name").s))
        cs == OptGet(OptGet(settings, "userStats"), "customStats").items
        hits == {j \in 1..Len(cs) : cs[j].t = "obj" /\ Get(cs[j], "id") = id}
        first == CHOOSE j \in hits : \A h \in hits : j <= h
    IN IF hits # {} /\ Truthy(Get(cs[first], "maxValue"))
       THEN JSString(Get(cs[first], "maxValue"))
       ELSE <<"100">>
C18Line(stat) ==
    <<"\n">> \o Get(stat, "name").s \o ColonSp \o JSString(Get(stat, "value"))
    \o (IF C18Number THEN <<"/">> \o C18Max(stat) ELSE <<>>) \o <<"\n">>

\* C18: when the player's stats are formatted (the payload is not rejected as
\* a whole), every named entry of the stats list with a value yields the line
\* "<name>: <value>/<max>" in display mode "number", max being the maxValue
\* configured for the stat's id, and the line "<name>: <value>" otherwise.
C18_StatLines ==
    (/\ ctxType = "userStats"
     /\ PayloadTruthy(ctxData)
     /\ ctxData.data.t = "obj"
     /\ IsArray(C18Stats)
     /\ ctxOut.out # <<>>)
    => \A i \in 1..Len(C18Stats.items) :
          C18Named(C18Stats.items[i]) => Occurs(C18Line(C18Stats.items[i]), ctxOut.out)
\* The example: value 7 with maxValue 10 in number mode is printed "HP: 7/10".
C18_Witness ==
    /\ ctxType = "userStats"
    /\ C18Number
    /\ ctxData.data.t = "obj"
    /\ IsArray(C18Stats)
    /\ \E i \in 1..Len(C18Stats.items) :
          /\ C18Named(C18Stats.items[i])
          /\ Get(C18Stats.items[i], "id") = Str("hp")
          /\ Get(C18Stats.items[i], "value") = Num(7)
    /\ Occurs(<<"\n", "HP", ":", " ", "7", "/", "10", "\n">>, ctxOut.out)

\* The positions of the character headings ("- <name>:" at the start of a
\* line) and the part of the output that belongs to the i-th heading.
C19Headings ==
    {i \in 2..Len(ctxOut.out) :
        ctxOut.out[i] = "-" /\ ctxOut.out[i - 1] = "\n"}
C19Heading(i) ==
    CHOOSE x \in C19Headings : Cardinality({y \in C19Headings : y < x}) = i - 1
C19Part(i) ==
    SubSeq(ctxOut.out, C19Heading(i),
           IF i < Cardinality(C19Headings) THEN C19Heading(i + 1) - 1
           ELSE Len(ctxOut.out))
\* The inner value of a relationship or thoughts value: the scalar itself, or
\* the scalar under key k of a record; <<>> when it is neither.
C19Value(v, k) ==
    IF v.t = "str" THEN v.s
    ELSE IF v.t = "obj" /\ Has(v, k) /\ Get(v, k).t = "str" THEN Get(v, k).s
    ELSE <<>>
C19Line(label, v, k) ==
    <<"\n", "  ", label>> \o ColonSp \o C19Value(v, k) \o <<"\n">>

\* C19: when a roster is formatted, every character has its own heading, in
\* roster order, and a relationship (scalar or record with "status") and
\* thoughts (scalar or record with "content") are printed as the lines
\* "Relationship: <inner value>" and "Thoughts: <inner value>" after that
\* character's heading and before the next one.
C19_LinesUnderHeading ==
    (/\ ctxType = "characters"
     /\ PayloadTruthy(ctxData)
     /\ ctxData.data.t = "arr"
     /\ ctxOut.out # <<>>)
    => /\ Cardinality(C19Headings) = Len(ctxData.data.items)
       /\ \A i \in 1..Len(ctxData.data.items) :
             LET char == ctxData.data.items[i]
                 rel == Get(char, "relationship")
                 thoughts == Get(char, "thoughts")
             IN /\ Get(char, "name").t = "str" =>
                      OccursAt(<<"-", " ">> \o Get(char, "name").s \o <<":", "\n">>,
                               C19Part(i), 1)
                /\ C19Value(rel, "status") # <<>> =>
                      Occurs(C19Line("Relationship", rel, "status"), C19Part(i))
                /\ C19Value(thoughts, "content") # <<>> =>
                      Occurs(C19Line("Thoughts", thoughts, "content"), C19Part(i))
\* Mira, with a status record and a content record, is followed by Bram, with
\* scalars; each has its two lines under its own heading.
C19_Witness ==
    /\ ctxType = "characters"
    /\ ctxData.data.t = "arr"
    /\ Len(ctxData.data.items) = 2
    /\ Get(ctxData.data.items[1], "relationship") = Obj(<<"status">>, <<Str("Friendly")>>)
    /\ Get(ctxData.data.items[1], "thoughts") = Obj(<<"content">>, <<Str("Curious")>>)
    /\ Get(ctxData.data.items[2], "relationship") = Str("Wary")
    /\ Cardinality(C19Headings) = 2
    /\ Occurs(<<"\n", "  ", "Relationship", ":", " ", "Friendly", "\n">>, C19Part(1))
    /\ Occurs(<<"\n", "  ", "Thoughts", ":", " ", "Curious", "\n">>, C19Part(1))
    /\ Occurs(<<"\n", "  ", "Relationship", ":", " ", "Wary", "\n">>, C19Part(2))

----------------------------------------------------------------------------
(* The instruction composer's specification: categories are shown or hidden, *)
(* the JSON helper texts and the prompt options change, and every step       *)
(* composes the instructions.                                                *)

\* The most prompt options that differ from their default.
MaxOptions == 2

\* The helper texts: the default ones, one-line blocks, and blocks returned
\* while fields are locked.
InstrHelpers ==
    { JsonHelpers(<<>>),
      [JsonHelpers(<<>>) EXCEPT !.userStats = <<"{ \"stats\": [] }">>,
                                !.characters = <<"[]">>],
      [JsonHelpers(<<"\n\n", "LOCKED FIELDS ...">>) EXCEPT
          !.infoBox = <<"{", "\n", "  \"location\": {", "\n", "    \"value\": \"[Location]\",",
                        "\n", "    \"locked\": true", "\n", "  }", "\n", "}">>] }

\* The prompt options and the value each takes when it is set.
InstrOptions ==
    { "customTrackerInstructionsPrompt", "customTrackerContinuationPrompt", "lastDiceRoll",
      "enableHtmlPrompt", "customHtmlPrompt", "enableSpotifyMusic", "customSpotifyPrompt" }
InstrOptionValue(k) ==
    CASE k = "customTrackerInstructionsPrompt" -> <<"Track ", "{userName}", " closely.">>
      [] k = "customTrackerContinuationPrompt" -> <<"Continue the scene.">>
      [] k = "lastDiceRoll" -> Obj(<<"total", "formula">>, <<Num(7), Str("1d20")>>)
      [] k = "enableHtmlPrompt" -> TRUE
      [] k = "customHtmlPrompt" -> <<"Use HTML.">>
      [] k = "enableSpotifyMusic" -> TRUE
      [] OTHER -> <<"Suggest a song.">>
InstrOptionsSet(ext) ==
    {k \in InstrOptions : ext[k] # ExtSettings(FALSE, FALSE, FALSE)[k]}

\* trackerConfig without and with attributes to send
InstrConfigs ==
    { JUndef,
      Obj(<<"userStats">>, <<Obj(<<"alwaysSendAttributes">>, <<Bool(TRUE)>>)>>) }

\* generateTrackerInstructions(includeHtmlPrompt, includeContinuation, includeAttributes)
\* is called.
InstrCompose(ext, helpers, cfg, args) ==
    /\ extensionSettings' = ext
    /\ jsonHelpers' = helpers
    /\ settings' = cfg
    /\ instrArgs' = args
    /\ instructions' =
          generateTrackerInstructions(args.includeHtmlPrompt, args.includeContinuation,
                                      args.includeAttributes, ext, cfg, name1, helpers)
    /\ UNCHANGED <<name1, resolveVars, histVars, chatVars, runVars, ctxVars, prevVars, weatherVars>>

\* A category is shown or hidden.
InstrShow ==
    \E k \in {"showUserStats", "showInfoBox", "showCharacterThoughts"} :
        InstrCompose([extensionSettings EXCEPT ![k] = ~extensionSettings[k]],
                     jsonHelpers, settings, instrArgs)

\* The helpers return other texts.
InstrHelp ==
    \E helpers \in InstrHelpers \ {jsonHelpers} :
        InstrCompose(extensionSettings, helpers, settings, instrArgs)

\* A prompt option is set, or set back to its default.
InstrOption ==
    \E k \in InstrOptions :
        IF k \in InstrOptionsSet(extensionSettings)
        THEN InstrCompose([extensionSettings EXCEPT
                              ![k] = ExtSettings(FALSE, FALSE, FALSE)[k]],
                          jsonHelpers, settings, instrArgs)
        ELSE /\ Cardinality(InstrOptionsSet(extensionSettings)) < MaxOptions
             /\ InstrCompose([extensionSettings EXCEPT ![k] = InstrOptionValue(k)],
                             jsonHelpers, settings, instrArgs)

\* The tracker configuration changes.
InstrConfigure ==
    \E cfg \in InstrConfigs \ {settings} :
        InstrCompose(extensionSettings, jsonHelpers, cfg, instrArgs)

\* The instructions are composed with other arguments.
InstrCall ==
    \E h \in BOOLEAN, c \in BOOLEAN, a \in BOOLEAN :
        /\ InstrArgs(h, c, a) # instrArgs
        /\ InstrCompose(extensionSettings, jsonHelpers, settings, InstrArgs(h, c, a))

InstrInit ==
    /\ extensionSettings = ExtSettings(FALSE, FALSE, FALSE)
    /\ jsonHelpers = JsonHelpers(<<>>)
    /\ settings = JUndef
    /\ name1 = <<"User">>
    /\ instrArgs = InstrArgs(TRUE, TRUE, TRUE)
    /\ instructions =
          generateTrackerInstructions(TRUE, TRUE, TRUE, extensionSettings, settings,
                                      name1, jsonHelpers)
    /\ field = JNull
    /\ resolved = <<>>
    /\ resolvedHist = <<>>
    /\ histData = NoTrackerData
    /\ histUseAll = FALSE
    /\ histOut = <<>>
    /\ chat = <<>>
    /\ updateDepth = 0
    /\ historyPersistence = NoHistoryPersistence
    /\ pc = "idle"
    /\ locals = NoLocals
    /\ recentMessages = <<>>
    /\ contextInjectionMap = NewMap
    /\ messages = <<>>
    /\ lastRun = NoRun
    /\ ctxData = Absent
    /\ ctxType = ""
    /\ ctxOut = Ok(<<>>)
    /\ committedTrackerData = TrackerData(Absent, Absent, Absent)
    /\ promptText = <<>>
    /\ example = <<>>
    /\ weatherSettings = [enableDynamicWeather |-> FALSE, weatherForeground |-> FALSE,
                          weatherBackground |-> FALSE]
    /\ infoBoxData = Absent
    /\ weatherContainer = JNull
    /\ currentWeatherType = JNull
    /\ currentTimeOfDay = JNull
    /\ currentHour = JNull
    /\ body = <<>>
    /\ weatherCall = ""

InstrNext ==
    \/ InstrShow
    \/ InstrHelp
    \/ InstrOption
    \/ InstrConfigure
    \/ InstrCall

SpecInstr == InstrInit /\ [][InstrNext]_vars

----------------------------------------------------------------------------
(* Claims about the instruction composer, checked under SpecInstr.          *)

\* The enabled categories in the fixed order, by the key each is listed under.
C20Enabled ==
    SelectSeq(<<"userStats", "infoBox", "characters">>,
              LAMBDA k : \/ k = "userStats" /\ extensionSettings.showUserStats
                         \/ k = "infoBox" /\ extensionSettings.showInfoBox
                         \/ k = "characters" /\ extensionSettings.showCharacterThoughts)
\* A block as it is nested: two spaces after each of its newlines.
C20Nested(block) ==
    Flatten([i \in 1..Len(block) |->
                IF block[i] = "\n" THEN <<"\n", "  ">> ELSE <<block[i]>>])
C20Key(k) ==
    CASE k = "userStats" -> "\"userStats\": "
      [] k = "infoBox" -> "\"infoBox\": "
      [] OTHER -> "\"characters\": "
\* The enabled categories' blocks, a comma and a newline between two of them.
C20Body ==
    Join([i \in 1..Len(C20Enabled) |->
            <<"  ", C20Key(C20Enabled[i])>> \o C20Nested(jsonHelpers[C20Enabled[i]])],
         <<",", "\n">>)
\* The positions of the opening and the closing fence of the FORMAT block.
C20Open == CHOOSE i \in 1..Len(instructions) : instructions[i] = "<fence>json"
C20Close == CHOOSE i \in 1..Len(instructions) : instructions[i] = "<fence>"

\* C20: for every non-empty set of enabled categories the FORMAT block lists
\* the enabled categories in the order userStats, infoBox, characters, each
\* block with every line after its first indented by two more spaces, with a
\* comma after each block but the last: n - 1 commas for n categories, and
\* none after the last.
C20_FormatBlock ==
    Len(C20Enabled) > 0 =>
        /\ \E i \in 1..Len(instructions) : instructions[i] = "<fence>json"
        /\ \E i \in 1..Len(instructions) : instructions[i] = "<fence>"
        /\ OccursAt(<<"<fence>json", "\n", "{", "\n">> \o C20Body \o <<"\n">>,
                    instructions, C20Open)
        /\ Cardinality({i \in C20Open..C20Close : instructions[i] = ","})
              = Len(C20Enabled) - 1
\* All three categories are enabled: the player's stats block, of several
\* lines, is followed by a comma and the scene info, and the roster closes
\* the object without a comma.
C20_Witness ==
    /\ C20Enabled = <<"userStats", "infoBox", "characters">>
    /\ jsonHelpers = JsonHelpers(<<>>)
    /\ Occurs(<<"\n", "  ", "}", ",", "\n", "  ", "\"infoBox\": ">>, instructions)
    /\ Occurs(<<"\n", "  ", "]", "\n", "}", "\n", "<fence>">>, instructions)

----------------------------------------------------------------------------
(* Claims about the trailing directives, checked under SpecInstr.           *)

\* Whether each trailing directive stands in the instructions.
C21Has(tokens) == \E i \in 1..Len(instructions) : instructions[i] \in tokens
C21Continuation ==
    C21Has({"After updating the trackers, continue directly ...", "Continue the scene."})
C21Attributes == C21Has({"'s attributes: "})
C21Dice == C21Has({" rolled "})
C21Html == C21Has({"DEFAULT_HTML_PROMPT", "Use HTML."})
C21Spotify == C21Has({"SPOTIFY_FORMAT_INSTRUCTION"})
\* Each directive's own toggle.
C21ContinuationOn == instrArgs.includeContinuation
C21AttributesOn ==
    /\ instrArgs.includeAttributes
    /\ Truthy(OptGet(OptGet(settings, "userStats"), "alwaysSendAttributes"))
    /\ ~IsFalse(OptGet(OptGet(settings, "userStats"), "showRPGAttributes"))
C21DiceOn == Truthy(extensionSettings.lastDiceRoll)
C21HtmlOn == extensionSettings.enableHtmlPrompt /\ instrArgs.includeHtmlPrompt
C21SpotifyOn == extensionSettings.enableSpotifyMusic /\ instrArgs.includeHtmlPrompt

\* C21 as stated: each trailing directive is in the output exactly when its
\* own toggle is on, whatever the other toggles and the enabled categories.
C21_OwnToggleOnly ==
    /\ C21Continuation <=> C21ContinuationOn
    /\ C21Attributes <=> C21AttributesOn
    /\ C21Dice <=> C21DiceOn
    /\ C21Html <=> C21HtmlOn
    /\ C21Spotify <=> C21SpotifyOn

\* C21: the continuation text, the attributes line and the dice-roll line are
\* in the output exactly when their own toggle is on and at least one tracker
\* category is enabled; the HTML prompt and the Spotify prompt are in the
\* output exactly when their own toggle is on, whatever the categories; no
\* directive depends on the toggle of another.
C21_OwnToggleAndTrackers ==
    /\ C21Continuation <=> (C21ContinuationOn /\ Len(C20Enabled) > 0)
    /\ C21Attributes <=> (C21AttributesOn /\ Len(C20Enabled) > 0)
    /\ C21Dice <=> (C21DiceOn /\ Len(C20Enabled) > 0)
    /\ C21Html <=> C21HtmlOn
    /\ C21Spotify <=> C21SpotifyOn
\* No category is enabled, a dice roll is stored and the HTML prompt is on:
\* the instructions hold the HTML prompt and neither the continuation text
\* nor the dice-roll line.
C21_Witness ==
    /\ Len(C20Enabled) = 0
    /\ C21ContinuationOn /\ C21DiceOn /\ C21HtmlOn
    /\ C21Html /\ ~C21Continuation /\ ~C21Dice

----------------------------------------------------------------------------
(* generateRPGPromptText and generateTrackerExample: the committed payloads *)
(* as previous trackers and as the tracker example.  JSON text is written   *)
(* one token a bracket, key or scalar; the indentation JSON.stringify adds  *)
(* is left out.                                                             *)

\* applyLocks of lockManager.js, with no field locked: the data as it is.
applyLocks(data, trackerType) == data

RECURSIVE JsonText(_)
\* The JSON text of a value.
JsonText(v) ==
    CASE v.t = "str" -> <<"\"">> \o v.s \o <<"\"">>
      [] v.t = "num" -> <<ToString(v.n)>>
      [] v.t = "bool" -> IF v.n = 1 THEN <<"true">> ELSE <<"false">>
      [] v.t = "arr" ->
            <<"[">> \o Join([i \in 1..Len(v.items) |-> JsonText(v.items[i])], <<",">>)
            \o <<"]">>
      [] v.t = "obj" ->
            <<"{">>
            \o Join([i \in 1..Len(v.keys) |->
                        <<"\"", v.keys[i], "\"", ":">> \o JsonText(v.items[i])], <<",">>)
            \o <<"}">>
      [] OTHER -> <<"null">>

\* `${payload}`: the string a payload is written as
PayloadString(p) ==
    CASE p.kind = "legacy" -> p.text
      [] p.kind = "json" -> JsonText(p.data)
      [] p.kind = "object" -> JSString(p.data)
      [] OTHER -> <<"undefined">>

\* JSON.parse(payload) throws: legacy text, or an object whose string is no
\* JSON text
JsonParseThrows(p) ==
    \/ p.kind = "legacy"
    \/ p.kind = "object" /\ ~IsNumeric(JSString(p.data))
\* what JSON.parse(payload) returns when it does not throw
JsonParsed(p) ==
    IF p.kind = "json" THEN p.data ELSE Num(NumericValue(JSString(p.data)))

\* If we have JSON parts, wrap them in unified structure; return example.trim()
ExampleText(parts, text) ==
    IF Len(parts) > 0
    THEN Trim(<<"{", "\n">> \o Join(parts, <<",", "\n">>) \o <<"\n", "}">>)
    ELSE Trim(text)

\* One category of generateTrackerExample: the part pushed, or the text added.
ExamplePart(show, p, key, trackerType, tail) ==
    IF ~(show /\ PayloadTruthy(p)) THEN [part |-> <<>>, text |-> <<>>]
    ELSE IF JsonParseThrows(p)
         THEN [part |-> <<>>,
               text |-> <<"<fence>", "\n">> \o PayloadString(p) \o <<"\n", "<fence>">> \o tail]
    ELSE [part |-> << <<"  ", key>> \o PayloadString(applyLocks(p, trackerType)) >>,
          text |-> <<>>]

generateTrackerExample(ext, committed) ==
    LET u == ExamplePart(ext.showUserStats, committed.userStats,
                         "\"userStats\": ", "userStats", <<"\n">>)
        i == ExamplePart(ext.showInfoBox, committed.infoBox,
                         "\"infoBox\": ", "infoBox", <<"\n">>)
        c == ExamplePart(ext.showCharacterThoughts, committed.characterThoughts,
                         "\"characters\": ", "characters", <<>>)
    IN ExampleText(u.part \o i.part \o c.part, u.text \o i.text \o c.text)

\* unifiedPrevious.<key> = parsed: [has, val]
Unified(val) == [has |-> TRUE, val |-> val]
NotUnified == [has |-> FALSE, val |-> JUndef]

\* The userStats and infoBox blocks of generateRPGPromptText: what
\* unifiedPrevious gains, or the text shown for backward compatibility.
PrevCategory(show, p, trackerType, shown) ==
    IF ~(show /\ PayloadTruthy(p)) THEN [unified |-> NotUnified, text |-> <<>>]
    ELSE IF JsonParseThrows(applyLocks(p, trackerType))
         THEN [unified |-> NotUnified,
               text |-> IF shown THEN PayloadString(p) \o <<"\n\n">> ELSE <<>>]
    ELSE [unified |-> Unified(JsonParsed(applyLocks(p, trackerType))), text |-> <<>>]

\* The characters block: included whatever showCharacterThoughts says, kept
\* only when the parsed data holds a character.
PrevCharacters(p, shown) ==
    LET parsed == IF p.kind = "object" THEN applyLocks(p, "characters").data
                  ELSE JsonParsed(applyLocks(p, "characters"))
        throws == p.kind # "object" /\ JsonParseThrows(applyLocks(p, "characters"))
        characters == Get(parsed, "characters")
    IN IF ~PayloadTruthy(p) THEN [unified |-> NotUnified, text |-> <<>>]
       ELSE IF throws
            THEN [unified |-> NotUnified,
                  text |-> IF shown
                           THEN (IF p.kind = "object" THEN JsonText(p.data)
                                 ELSE PayloadString(p)) \o <<"\n">>
                           ELSE <<>>]
       ELSE IF /\ Truthy(parsed)
               /\ \/ IsArray(parsed) /\ Len(parsed.items) > 0
                  \/ Truthy(characters) /\ IsArray(characters) /\ Len(characters.items) > 0
            THEN [unified |-> Unified(parsed), text |-> <<>>]
       ELSE [unified |-> NotUnified, text |-> <<>>]

\* !unifiedPrevious.userStats (&& !unifiedPrevious.infoBox)
ShownUnless(siblings) ==
    \A i \in 1..Len(siblings) : ~(siblings[i].has /\ Truthy(siblings[i].val))

\* The lines between <previous> and </previous>.
PreviousSection(ext, committed) ==
    LET hasAnyPreviousData ==
            \/ PayloadTruthy(committed.userStats)
            \/ PayloadTruthy(committed.infoBox)
            \/ PayloadTruthy(committed.characterThoughts)
        u == PrevCategory(ext.showUserStats, committed.userStats, "userStats", TRUE)
        i == PrevCategory(ext.showInfoBox, committed.infoBox, "infoBox",
                          ShownUnless(<<u.unified>>))
        c == PrevCharacters(committed.characterThoughts,
                            ShownUnless(<<u.unified, i.unified>>))
        entry(key, cat) ==
            IF cat.unified.has THEN << <<"\"", key, "\"", ":">> \o JsonText(cat.unified.val) >>
            ELSE <<>>
        keys == entry("userStats", u) \o entry("infoBox", i) \o entry("characters", c)
    IN IF hasAnyPreviousData
       THEN u.text \o i.text \o c.text
            \o (IF Len(keys) > 0
                THEN <<"{">> \o Join(keys, <<",">>) \o <<"}", "\n">>
                ELSE <<>>)
       ELSE <<"None - this is the first update.", "\n">>

generateRPGPromptText(ext, committed, trackerConfig, userName, helpers) ==
    <<"Here are the previous trackers in the roleplay that you should consider when responding:",
      "\n", "<previous>", "\n">>
    \o PreviousSection(ext, committed)
    \o <<"</previous>", "\n">>
    \o generateTrackerInstructions(FALSE, FALSE, FALSE, ext, trackerConfig, userName, helpers)

----------------------------------------------------------------------------
(* The specification of the previous trackers: payloads are committed,      *)
(* categories are shown or hidden, and every step builds the prompt text    *)
(* and the tracker example.                                                 *)

PrevCharacter == Obj(<<"name">>, <<Str("Mira")>>)
\* The payloads a category may have committed.
PrevPayloads(k) ==
    CASE k = "userStats" ->
            { Absent, Legacy(<<"Health", ":", " ", "7">>),
              Json(Obj(<<"stats">>, <<Arr(<<>>)>>)) }
      [] k = "infoBox" ->
            { Absent, Legacy(<<"Weather", ":", " ", "Rain">>),
              Json(Obj(<<"location">>, <<Str("Forest Clearing")>>)) }
      [] OTHER ->
            { Absent, Legacy(<<"Mira", " ", "|", " ", "Friendly">>),
              Json(Arr(<<>>)), Json(Arr(<<PrevCharacter>>)), Live(Arr(<<PrevCharacter>>)),
              Json(Obj(<<"characters">>, <<Arr(<<PrevCharacter>>)>>)) }

\* generateRPGPromptText() and generateTrackerExample() are called.
PrevBuild(ext, committed) ==
    /\ extensionSettings' = ext
    /\ committedTrackerData' = committed
    /\ promptText' = generateRPGPromptText(ext, committed, settings, name1, jsonHelpers)
    /\ example' = generateTrackerExample(ext, committed)
    /\ UNCHANGED <<settingsVars, jsonHelpers, instrArgs, instructions, resolveVars, histVars,
                   chatVars, runVars, ctxVars, weatherVars>>

\* A category's payload is committed.
PrevCommit ==
    \E k \in {"userStats", "infoBox", "characterThoughts"} :
        \E p \in PrevPayloads(k) \ {committedTrackerData[k]} :
            PrevBuild(extensionSettings, [committedTrackerData EXCEPT ![k] = p])

\* A category is shown or hidden.
PrevShow ==
    \E k \in {"showUserStats", "showInfoBox", "showCharacterThoughts"} :
        PrevBuild([extensionSettings EXCEPT ![k] = ~extensionSettings[k]],
                  committedTrackerData)

PrevInit ==
    /\ extensionSettings = ExtSettings(TRUE, TRUE, TRUE)
    /\ committedTrackerData = TrackerData(Absent, Absent, Absent)
    /\ settings = JUndef
    /\ name1 = <<"User">>
    /\ jsonHelpers = JsonHelpers(<<>>)
    /\ promptText = generateRPGPromptText(extensionSettings, committedTrackerData,
                                          settings, name1, jsonHelpers)
    /\ example = generateTrackerExample(extensionSettings, committedTrackerData)
    /\ instrArgs = InstrArgs(FALSE, FALSE, FALSE)
    /\ instructions = <<>>
    /\ field = JNull
    /\ resolved = <<>>
    /\ resolvedHist = <<>>
    /\ histData = NoTrackerData
    /\ histUseAll = FALSE
    /\ histOut = <<>>
    /\ chat = <<>>
    /\ updateDepth = 0
    /\ historyPersistence = NoHistoryPersistence
    /\ pc = "idle"
    /\ locals = NoLocals
    /\ recentMessages = <<>>
    /\ contextInjectionMap = NewMap
    /\ messages = <<>>
    /\ lastRun = NoRun
    /\ ctxData = Absent
    /\ ctxType = ""
    /\ ctxOut = Ok(<<>>)
    /\ weatherSettings = [enableDynamicWeather |-> FALSE, weatherForeground |-> FALSE,
                          weatherBackground |-> FALSE]
    /\ infoBoxData = Absent
    /\ weatherContainer = JNull
    /\ currentWeatherType = JNull
    /\ currentTimeOfDay = JNull
    /\ currentHour = JNull
    /\ body = <<>>
    /\ weatherCall = ""

PrevNext ==
    \/ PrevCommit
    \/ PrevShow

SpecPrev == PrevInit /\ [][PrevNext]_vars

----------------------------------------------------------------------------
(* Claims about the previous trackers and the tracker example, checked      *)
(* under SpecPrev.                                                          *)

\* The text between the <previous> line and the </previous> line.
C30Open == CHOOSE i \in 1..Len(promptText) : promptText[i] = "<previous>"
C30Close == CHOOSE i \in 1..Len(promptText) : promptText[i] = "</previous>"
C30Body == SubSeq(promptText, C30Open + 2, C30Close - 1)

\* The enabled categories whose committed payload is legacy text.
C22Legacy ==
    {k \in {"userStats", "infoBox", "characterThoughts"} :
        /\ committedTrackerData[k].kind = "legacy"
        /\ committedTrackerData[k].text # <<>>
        /\ \/ k = "userStats" /\ extensionSettings.showUserStats
           \/ k = "infoBox" /\ extensionSettings.showInfoBox
           \/ k = "characterThoughts" /\ extensionSettings.showCharacterThoughts}

\* C22: an enabled category whose payload is legacy text is emitted verbatim,
\* in the previous-trackers text and in the tracker example, whether or not
\* a sibling category's payload parsed as JSON.
C22_LegacyTextAlwaysEmitted ==
    \A k \in C22Legacy :
        /\ Occurs(committedTrackerData[k].text, C30Body)
        /\ Occurs(committedTrackerData[k].text, example)

\* Whether the section holds the sentence of the first update, and whether
\* it holds a category's data: unified JSON or a legacy text.
C30Sentinel == Occurs(<<"None - this is the first update.">>, C30Body)
C30Data ==
    \/ Occurs(<<"{">>, C30Body)
    \/ \E k \in {"userStats", "infoBox", "characterThoughts"} :
          /\ committedTrackerData[k].kind = "legacy"
          /\ Occurs(committedTrackerData[k].text, C30Body)

\* C30: the <previous> section is never empty: it holds the sentence
\* "None - this is the first update." or at least one category's data, and
\* the sentence exactly when no tracker data is shown.
C30_PreviousNeverEmpty ==
    /\ C30Body # <<>>
    /\ C30Sentinel \/ C30Data
    /\ C30Sentinel <=> ~C30Data

----------------------------------------------------------------------------
(* The two resolvers compared, under SpecResolve.                           *)

\* C23: the getValue of formatTrackerDataForContext and the getValue of
\* formatHistoricalTrackerData return the same string for every field value.
C23_SameResolver == resolved = resolvedHist

----------------------------------------------------------------------------
(* The specification of the window: messages join and leave the chat, the  *)
(* update depth changes, also while a run awaits the character cards, and  *)
(* runs slice the chat by the depth they read.                             *)

\* The greatest update depth, and the depths the user sets: none, fewer turns
\* than a chat holds, and as many as the longest chat.
MaxDepth == 4
Depths == {0, 2, MaxDepth}

\* The messages that join the chat: a user message, a hidden user message, a
\* hidden assistant message with a snapshot, and an assistant message with a
\* scene snapshot.
WindowKinds == {"U", "H", "N", "A1"}

\* The history persistence settings of the runs.
WindowSettings ==
    { HistoryPersistence(TRUE, "assistant_message_end", TRUE, <<>>),
      HistoryPersistence(TRUE, "user_message_end", TRUE, <<"Earlier:">>),
      HistoryPersistence(FALSE, "user_message_end", TRUE, <<>>) }

\* The last message of the chat is deleted.
DeleteMessage ==
    /\ Suspended
    /\ chat # <<>>
    /\ chat' = SubSeq(chat, 1, Len(chat) - 1)
    /\ UNCHANGED <<updateDepth, historyPersistence, runVars, settingsVars,
                   resolveVars, histVars, ctxVars, instrVars, prevVars, weatherVars>>

\* The user sets extensionSettings.updateDepth.
ChangeDepth ==
    \E d \in Depths \ {updateDepth} :
        /\ Suspended
        /\ updateDepth' = d
        /\ UNCHANGED <<chat, historyPersistence, runVars, settingsVars,
                       resolveVars, histVars, ctxVars, instrVars, prevVars, weatherVars>>

WindowInit ==
    /\ chat = <<>>
    /\ updateDepth = MaxDepth
    /\ historyPersistence \in WindowSettings
    /\ settings = MkConfig({"skills"}, {}, FALSE)
    /\ name1 = <<"User">>
    /\ pc = "idle"
    /\ locals = NoLocals
    /\ recentMessages = <<>>
    /\ contextInjectionMap = NewMap
    /\ messages = <<>>
    /\ lastRun = NoRun
    /\ ctxData = Absent
    /\ ctxType = ""
    /\ ctxOut = Ok(<<>>)
    /\ extensionSettings = ExtSettings(FALSE, FALSE, FALSE)
    /\ jsonHelpers = JsonHelpers(<<>>)
    /\ instrArgs = InstrArgs(TRUE, TRUE, TRUE)
    /\ instructions = <<>>
    /\ committedTrackerData = TrackerData(Absent, Absent, Absent)
    /\ promptText = <<>>
    /\ example = <<>>
    /\ weatherSettings = [enableDynamicWeather |-> FALSE, weatherForeground |-> FALSE,
                          weatherBackground |-> FALSE]
    /\ infoBoxData = Absent
    /\ weatherContainer = JNull
    /\ currentWeatherType = JNull
    /\ currentTimeOfDay = JNull
    /\ currentHour = JNull
    /\ body = <<>>
    /\ weatherCall = ""
    /\ field = JNull
    /\ resolved = <<>>
    /\ resolvedHist = <<>>
    /\ histData = NoTrackerData
    /\ histUseAll = FALSE
    /\ histOut = <<>>

WindowNext ==
    \/ AppendOf(WindowKinds)
    \/ DeleteMessage
    \/ ChangeDepth
    \/ Begin
    \/ Resume
    \/ Return

SpecWindow == WindowInit /\ [][WindowNext]_vars

----------------------------------------------------------------------------
(* Properties of the window and of the merge.  They read the state a run   *)
(* leaves when it reaches its return statement (pc = "done").              *)

\* The messages between the leading system message and the trailing
\* instruction message.
C24Emitted == SubSeq(messages, 2, Len(messages) - 1)
\* Sequence s starts with sequence p.
C24StartsWith(s, p) == Len(s) >= Len(p) /\ SubSeq(s, 1, Len(p)) = p
\* The messages the flows put in the chat.
C24Stored == {MessageOf(kind) : kind \in MessageKinds}

\* C24: merging the injection map never disturbs the transcript: the messages
\* between the leading system message and the trailing instruction message
\* correspond one-to-one and in order to the window's turns, the content of each
\* starts with the turn's original text and the mapped text follows it, a turn
\* without a map entry is emitted unchanged, and the turns stored in the chat
\* are not modified.
C24_MergeKeepsTranscript ==
    pc = "done" =>
        /\ Len(messages) = Len(recentMessages) + 2
        /\ messages[1].role = "system"
        /\ messages[Len(messages)] = InstructionMessage
        /\ \A i \in 1..Len(recentMessages) :
              /\ C24Emitted[i].role
                   = (IF recentMessages[i].is_user THEN "user" ELSE "assistant")
              /\ C24StartsWith(C24Emitted[i].content, recentMessages[i].mes)
              /\ (i - 1) \notin DOMAIN contextInjectionMap
                    => C24Emitted[i].content = recentMessages[i].mes
              /\ (i - 1) \in DOMAIN contextInjectionMap
                    => C24Emitted[i].content
                         = recentMessages[i].mes \o contextInjectionMap[i - 1]
        /\ \A i \in 1..Len(chat) : chat[i] \in C24Stored
        /\ \A i \in 1..Len(recentMessages) :
              recentMessages[i] = chat[Len(chat) - Len(recentMessages) + i]

\* A run over a window shorter than the chat has merged a map with an entry for
\* one turn and none for another.
C24_Witness ==
    /\ pc = "done"
    /\ Len(recentMessages) < Len(chat)
    /\ \E i, j \in WindowIdx :
          /\ i \in DOMAIN contextInjectionMap
          /\ j \notin DOMAIN contextInjectionMap
          /\ C24Emitted[i + 1].content # recentMessages[i + 1].mes
          /\ C24Emitted[j + 1].content = recentMessages[j + 1].mes

\* The index in the chat of the first turn of the window.
C25Start == Len(chat) - Len(recentMessages)

\* C25: window selection, map construction and merge run without a suspension
\* point between them: when the messages are emitted the window is still the
\* slice of the chat as it is, every map index denotes the turn of the chat it
\* denoted when the map was built, and the emitted message at that index is
\* that turn's.
C25_NoInterleaving ==
    pc = "done" =>
        /\ recentMessages = SliceLast(chat, locals.depth)
        /\ contextInjectionMap = BuildMap(SliceLast(chat, locals.depth), locals)
        /\ \A k \in DOMAIN contextInjectionMap :
              /\ k \in WindowIdx
              /\ C25Start + k + 1 \in 1..Len(chat)
              /\ recentMessages[k + 1] = chat[C25Start + k + 1]
              /\ C24Emitted[k + 1].content
                   = chat[C25Start + k + 1].mes \o contextInjectionMap[k]

\* A run that read one depth before its await and finds another after it has
\* sliced the chat by the depth it read, and has merged an entry.
C25_Witness ==
    /\ pc = "done"
    /\ updateDepth # locals.depth
    /\ Len(recentMessages) = locals.depth
    /\ Len(recentMessages) < Len(chat)
    /\ DOMAIN contextInjectionMap # {}

\* The smaller of two numbers.
C26Min(a, b) == IF a <= b THEN a ELSE b

\* C26: for every chat and every depth d >= 0 the window holds exactly
\* min(d, chat length) turns, the most recent ones in chat order; depth 0
\* yields an empty window.
C26_WindowOfDepth ==
    pc = "done" =>
        /\ Len(recentMessages) = C26Min(locals.depth, Len(chat))
        /\ \A i \in 1..Len(recentMessages) :
              recentMessages[i] = chat[Len(chat) - Len(recentMessages) + i]
        /\ locals.depth = 0 => recentMessages = <<>>

\* The window without the snapshots of its system-authored turns.
C27Unhidden(recent) ==
    [i \in 1..Len(recent) |->
        IF recent[i].is_system
        THEN [recent[i] EXCEPT !.extra = NoSwipes, !.swipe_info = <<>>]
        ELSE recent[i]]
\* The system-authored turns of the window.
C27SystemTurns == {i \in WindowIdx : recentMessages[i + 1].is_system}

\* C27: every key of the injection map is a valid index of the window; it
\* denotes a model-authored turn under the assistant anchor and a user-authored,
\* non-system turn under the user anchor; a system-authored turn is never a key
\* and never a source of a contribution (the map is the one built from the
\* window without the system turns' snapshots); with history persistence
\* disabled the map is empty.
C27_KeysAreAnchors ==
    pc = "done" =>
        /\ DOMAIN contextInjectionMap \subseteq WindowIdx
        /\ ~UserAnchor => DOMAIN contextInjectionMap \subseteq ModelTurns
        /\ UserAnchor => DOMAIN contextInjectionMap \subseteq UserTurns
        /\ DOMAIN contextInjectionMap \cap C27SystemTurns = {}
        /\ contextInjectionMap = BuildMap(C27Unhidden(recentMessages), locals)
        /\ ~PersistenceOn => contextInjectionMap = NewMap

\* Under the user anchor a hidden user turn, or a hidden assistant turn with a
\* snapshot, stands between a user turn and a contributing turn, and the only
\* key is the user turn.
C27_Witness ==
    /\ pc = "done"
    /\ PersistenceOn
    /\ UserAnchor
    /\ recentMessages \in
          { <<MessageOf("U"), MessageOf("H"), MessageOf("A1"), MessageOf("A1")>>,
            <<MessageOf("U"), MessageOf("N"), MessageOf("A1"), MessageOf("A1")>> }
    /\ DOMAIN contextInjectionMap = {0}

----------------------------------------------------------------------------
(* weatherEffects.js: the weather and the time of the info box *)

\* String.prototype.toLowerCase on the words of the model
LowerCase(text) ==
    [i \in 1..Len(text) |->
        CASE text[i] = "Rain" -> "rain"
          [] text[i] = "Clear" -> "clear"
          [] text[i] = "Cloudy" -> "cloudy"
          [] text[i] = "Thunderstorm" -> "thunderstorm"
          [] text[i] = "Evening" -> "evening"
          [] text[i] = "Midnight" -> "midnight"
          [] text[i] = "AM" -> "am"
          [] text[i] = "PM" -> "pm"
          [] OTHER -> text[i]]

\* The words a lower-case word of the model holds as substrings.
WordsWithin(word) ==
    CASE word = "thunderstorm" -> {"thunderstorm", "thunder", "storm"}
      [] word = "midnight" -> {"midnight", "night"}
      [] word = "cloudy" -> {"cloudy", "cloud"}
      [] OTHER -> {word}

\* text.includes(w) for one of the words ws
IncludesAny(text, ws) ==
    \E i \in 1..Len(text) : WordsWithin(text[i]) \cap ws # {}

\* text.includes(phrase) for a phrase of several words
IncludesPhrase(text, phrase) ==
    \E i \in 1..Len(text) :
        /\ i + Len(phrase) - 1 <= Len(text)
        /\ SubSeq(text, i, i + Len(phrase) - 1) = phrase

\* \d{1,2}: a token of one or two digits, and parseInt(token, 10)
IsHourDigits(tok) == \E n \in 0..99 : ToString(n) = tok
ParseInt(tok) == CHOOSE n \in 0..99 : ToString(n) = tok
\* \d{2}: a token of two digits
IsTwoDigits(tok) == tok \in {"00", "30"} \/ \E n \in 10..99 : ToString(n) = tok

\* The token of text at position i, or none past its end.
TokenAt(text, i) == IF i \in 1..Len(text) THEN text[i] ELSE ""

\* The position after the optional (?::(\d{2})) at position i.
AfterMinutes(text, i) ==
    IF TokenAt(text, i) = ":" /\ IsTwoDigits(TokenAt(text, i + 1)) THEN i + 2 ELSE i

RECURSIVE AfterSpaces(_, _)
\* The position after \s* at position i.
AfterSpaces(text, i) ==
    IF TokenAt(text, i) \in Whitespace THEN AfterSpaces(text, i + 1) ELSE i

\* /(\d{1,2})(?::(\d{2}))?\s*(am|pm)/ matches at position i: the position of
\* its am or pm, or 0
AmPmAt(text, i) ==
    IF ~IsHourDigits(TokenAt(text, i)) THEN 0
    ELSE IF TokenAt(text, AfterSpaces(text, AfterMinutes(text, i + 1))) \in {"am", "pm"}
         THEN AfterSpaces(text, AfterMinutes(text, i + 1))
    ELSE IF TokenAt(text, AfterSpaces(text, i + 1)) \in {"am", "pm"}
         THEN AfterSpaces(text, i + 1)
    ELSE 0

\* The hour of "3:00 PM", "3:00PM" or "3 PM" matched at position i
AmPmHour(text, i) ==
    LET hour == ParseInt(text[i])
        isPM == text[AmPmAt(text, i)] = "pm"
    IN IF isPM /\ hour # 12 THEN Num(hour + 12)
       ELSE IF ~isPM /\ hour = 12 THEN Num(0)
       ELSE Num(hour)

\* /(\d{1,2}):(\d{2})/ matches at position i
MilitaryAt(text, i) ==
    /\ IsHourDigits(TokenAt(text, i))
    /\ TokenAt(text, i + 1) = ":"
    /\ IsTwoDigits(TokenAt(text, i + 2))

\* The first position of a set of positions.
FirstOf(S) == CHOOSE i \in S : \A j \in S : i <= j

\* Try to parse numeric time formats
parseNumericHour(text) ==
    LET ampm == {i \in 1..Len(text) : AmPmAt(text, i) # 0}
        military == {i \in 1..Len(text) : MilitaryAt(text, i)}
    IN IF ampm # {} THEN AmPmHour(text, FirstOf(ampm))
       ELSE IF military # {} THEN Num(ParseInt(text[FirstOf(military)]))
       ELSE JNull

\* Parse time string to extract hour (24-hour format)
parseHourFromTime(timeStr) ==
    IF ~Truthy(timeStr) THEN JNull
    ELSE LET text == Trim(LowerCase(timeStr.s))
         IN IF IncludesAny(text, {"dawn", "sunrise"}) THEN Num(6)
            ELSE IF IncludesPhrase(text, <<"early", " ", "morning">>) THEN Num(7)
            ELSE IF IncludesAny(text, {"morning"}) THEN Num(9)
            ELSE IF IncludesAny(text, {"midday", "noon", "mid-day"}) THEN Num(12)
            ELSE IF IncludesAny(text, {"afternoon"}) THEN Num(14)
            ELSE IF IncludesPhrase(text, <<"late", " ", "afternoon">>) THEN Num(16)
            ELSE IF IncludesAny(text, {"evening", "dusk", "sunset"}) THEN Num(19)
            ELSE IF IncludesAny(text, {"twilight"}) THEN Num(20)
            ELSE IF IncludesAny(text, {"night", "nighttime"}) THEN Num(22)
            ELSE IF IncludesAny(text, {"midnight"}) THEN Num(0)
            ELSE IF IncludesPhrase(text, <<"late", " ", "night">>) THEN Num(2)
            ELSE parseNumericHour(text)

\* Determine time of day based on hour
getTimeOfDay(hour) ==
    IF hour = JNull THEN Str("unknown")
    ELSE IF hour.n >= 20 \/ hour.n < 5 THEN Str("night")
    ELSE IF hour.n >= 5 /\ hour.n < 7 THEN Str("dawn")
    ELSE IF hour.n >= 18 /\ hour.n < 20 THEN Str("dusk")
    ELSE Str("day")

\* Parse weather text to determine effect type
parseWeatherType(weatherText) ==
    IF ~Truthy(weatherText) THEN Str("none")
    ELSE LET text == LowerCase(weatherText.s)
         IN IF IncludesAny(text, {"blizzard"}) THEN Str("blizzard")
            ELSE IF IncludesAny(text, {"storm", "thunder", "lightning"}) THEN Str("storm")
            ELSE IF IncludesAny(text, {"wind", "breeze", "gust", "gale"}) THEN Str("wind")
            ELSE IF IncludesAny(text, {"snow", "flurries"}) THEN Str("snow")
            ELSE IF IncludesAny(text, {"rain", "drizzle", "shower"}) THEN Str("rain")
            ELSE IF IncludesAny(text, {"mist", "fog", "haze"}) THEN Str("mist")
            ELSE IF IncludesAny(text, {"sunny", "clear", "bright"}) THEN Str("sunny")
            ELSE Str("none")

\* repairJSON(text): the value of a JSON text, and null of any other text
repairJSON(p) == IF p.kind = "json" THEN p.data ELSE JNull

\* a || b || null
FirstTruthy(a, b) == IF Truthy(a) THEN a ELSE IF Truthy(b) THEN b ELSE JNull

\* The text after a label on the first trimmed line that starts with the label
\* and a colon, or null when no line does.
LabelledLine(text, label) ==
    LET lines == SplitLines(text)
        found == {i \in 1..Len(lines) :
                     /\ Len(Trim(lines[i])) >= 2
                     /\ SubSeq(Trim(lines[i]), 1, 2) = <<label, ":">>}
    IN IF found = {} THEN JNull
       ELSE JStr(Trim(SubSeq(Trim(lines[FirstOf(found)]), 3,
                             Len(Trim(lines[FirstOf(found)])))))

\* infoBoxData.split('\n') is applied to a string: the payload is no object
SplitThrows(p) == p.kind = "object"

\* The text of the info box when it is a string ('' when there is none).
InfoBoxText(p) == IF p.kind = "absent" THEN <<>> ELSE PayloadString(p)

\* If it contains the arrow, take the end time (after arrow)
AfterArrow(timeStr) ==
    IF timeStr = JNull \/ \A i \in 1..Len(timeStr.s) : timeStr.s[i] # "->" THEN timeStr
    ELSE LET at == FirstOf({i \in 1..Len(timeStr.s) : timeStr.s[i] = "->"})
             rest == SubSeq(timeStr.s, at + 1, Len(timeStr.s))
             next == {i \in 1..Len(rest) : rest[i] = "->"}
             second == Trim(IF next = {} THEN rest ELSE SubSeq(rest, 1, FirstOf(next) - 1))
         IN IF second # <<>> THEN JStr(second)
            ELSE JStr(Trim(SubSeq(timeStr.s, 1, at - 1)))

\* Extract weather from Info Box data
getCurrentWeather(p) ==
    LET parsed == IF p.kind = "object" THEN p.data
                  ELSE IF p.kind = "json" THEN p.data ELSE JNull
    IN IF Truthy(parsed) /\ parsed.t = "obj" /\ Truthy(Get(parsed, "weather"))
       THEN [threw |-> FALSE,
             out |-> FirstTruthy(Get(Get(parsed, "weather"), "forecast"),
                                 Get(Get(parsed, "weather"), "emoji"))]
       ELSE IF SplitThrows(p) THEN [threw |-> TRUE, out |-> JNull]
       ELSE [threw |-> FALSE, out |-> LabelledLine(InfoBoxText(p), "Weather")]

\* Extract time from Info Box data
getCurrentTime(p) ==
    LET parsed == IF p.kind = "object" THEN p.data ELSE repairJSON(p)
    IN IF Truthy(parsed) /\ parsed.t = "obj" /\ Truthy(Get(parsed, "time"))
       THEN [threw |-> FALSE,
             out |-> FirstTruthy(Get(Get(parsed, "time"), "end"),
                                 Get(Get(parsed, "time"), "start"))]
       ELSE IF SplitThrows(p) THEN [threw |-> TRUE, out |-> JNull]
       ELSE [threw |-> FALSE, out |-> AfterArrow(LabelledLine(InfoBoxText(p), "Time"))]

----------------------------------------------------------------------------
(* weatherEffects.js: the container of the effect and the document *)

\* A container element: its identity, the effect it shows, its sun or moon
\* ("" when it has neither), the hour the sun or moon is placed for, and its
\* layer ("" until a z-index is applied).
Element(id, effect, celestial, hour, layer) ==
    Obj(<<"id", "effect", "celestial", "hour", "layer">>,
        <<Num(id), Str(effect), Str(celestial), hour, Str(layer)>>)

\* The element with one of its properties set.
WithProp(el, k, v) ==
    Obj(el.keys, [i \in 1..Len(el.keys) |-> IF el.keys[i] = k THEN v ELSE el.items[i]])

\* The module's variables and the children of document.body.
WeatherState(container, weatherType, timeOfDay, hour, attached) ==
    [weatherContainer |-> container, currentWeatherType |-> weatherType,
     currentTimeOfDay |-> timeOfDay, currentHour |-> hour, body |-> attached]

\* The identity of document.createElement('div'): one no attached element has.
NewId(attached) ==
    FirstOf({n \in 0..Len(attached) :
                \A i \in 1..Len(attached) : Get(attached[i], "id") # Num(n)})

\* A removal that leaves the element in the document.
DetachNothing(attached, el) == attached

\* element.remove()
Detach(attached, el) ==
    SelectSeq(attached, LAMBDA e : Get(e, "id") # Get(el, "id"))

\* The element as the document holds it after a change of its properties.
Restyle(attached, el) ==
    [i \in 1..Len(attached) |->
        IF Get(attached[i], "id") = Get(el, "id") THEN el ELSE attached[i]]

\* Create new effect based on weather type
CreateEffect(weatherType, timeOfDay, hour, id) ==
    CASE weatherType = Str("snow") -> Element(id, "snow", "", JNull, "")
      [] weatherType = Str("rain") -> Element(id, "rain", "", JNull, "")
      [] weatherType = Str("mist") -> Element(id, "mist", "", JNull, "")
      [] weatherType = Str("sunny") ->
            IF timeOfDay = Str("night") THEN Element(id, "nighttime", "moon", hour, "")
            ELSE IF timeOfDay = Str("dawn") THEN Element(id, "sunrise", "sun", hour, "")
            ELSE IF timeOfDay = Str("dusk") THEN Element(id, "sunset", "sun", hour, "")
            ELSE Element(id, "sunshine", "sun", hour, "")
      [] weatherType = Str("wind") -> Element(id, "wind", "", JNull, "")
      [] weatherType = Str("storm") -> Element(id, "storm", "", JNull, "")
      [] weatherType = Str("blizzard") -> Element(id, "blizzard", "", JNull, "")
      [] OTHER -> JNull

\* Remove current weather effect
removeWeatherEffect(w) ==
    IF Truthy(w.weatherContainer)
    THEN WeatherState(JNull, JNull, JNull, JNull, Detach(w.body, w.weatherContainer))
    ELSE w

\* updateCelestialPosition(hour) returns true: the container has a sun or a moon
HasCelestial(w) ==
    /\ Truthy(w.weatherContainer)
    /\ Get(w.weatherContainer, "celestial") \in {Str("sun"), Str("moon")}

\* Update sun/moon position without recreating the whole effect
updateCelestialPosition(w, hour) ==
    IF HasCelestial(w)
    THEN [w EXCEPT !.weatherContainer = WithProp(w.weatherContainer, "hour", hour),
                   !.body = Restyle(w.body, WithProp(w.weatherContainer, "hour", hour))]
    ELSE w

\* Apply z-index based on background/foreground settings, and append
\* (both disabled: don't show weather).
ShowEffect(w, st) ==
    IF ~Truthy(w.weatherContainer) THEN w
    ELSE IF st.weatherForeground
    THEN [w EXCEPT !.weatherContainer = WithProp(w.weatherContainer, "layer", Str("foreground")),
                   !.body = Append(w.body,
                                   WithProp(w.weatherContainer, "layer", Str("foreground")))]
    ELSE IF st.weatherBackground
    THEN [w EXCEPT !.weatherContainer = WithProp(w.weatherContainer, "layer", Str("background")),
                   !.body = Append(w.body,
                                   WithProp(w.weatherContainer, "layer", Str("background")))]
    ELSE w

\* updateWeatherEffect once the weather type, the hour and the time of day are known
UpdateTo(w, st, weatherType, timeOfDay, hour) ==
    IF /\ weatherType = w.currentWeatherType
       /\ timeOfDay = w.currentTimeOfDay
       /\ hour # w.currentHour
       /\ HasCelestial(w)
    THEN [updateCelestialPosition(w, hour) EXCEPT !.currentHour = hour]
    ELSE IF /\ weatherType = w.currentWeatherType
            /\ timeOfDay = w.currentTimeOfDay
            /\ hour = w.currentHour
    THEN w
    ELSE IF weatherType = Str("none") THEN removeWeatherEffect(w)
    ELSE ShowEffect(WeatherState(CreateEffect(weatherType, timeOfDay, hour,
                                              NewId(removeWeatherEffect(w).body)),
                                 weatherType, timeOfDay, hour,
                                 removeWeatherEffect(w).body),
                    st)

\* Update weather effect based on current weather and time: the state it
\* leaves, or the throw of a split that is applied to an object
updateWeatherEffect(w, st, p) ==
    IF ~st.enableDynamicWeather THEN [threw |-> FALSE, out |-> removeWeatherEffect(w)]
    ELSE IF getCurrentWeather(p).threw \/ getCurrentTime(p).threw
    THEN [threw |-> TRUE, out |-> w]
    ELSE [threw |-> FALSE,
          out |-> UpdateTo(w, st, parseWeatherType(getCurrentWeather(p).out),
                           getTimeOfDay(parseHourFromTime(getCurrentTime(p).out)),
                           parseHourFromTime(getCurrentTime(p).out))]

----------------------------------------------------------------------------
(* The specification of the weather effects: the settings and the info box *)
(* change, and the exported functions are called in any order.             *)

\* The weather and the time the info box gives ("" when it gives none).
WeatherTexts == {<<>>, <<"Rain">>, <<"Clear">>}
TimeTexts == {<<>>, <<"9", ":", "00">>, <<"10", ":", "00">>, <<"10", ":", "00", " ", "PM">>}

\* The info box as an object: weather and time are there when given
InfoBoxObject(weather, time) ==
    Obj((IF weather # <<>> THEN <<"weather">> ELSE <<>>)
          \o (IF time # <<>> THEN <<"time">> ELSE <<>>),
        (IF weather # <<>>
         THEN <<Obj(<<"emoji", "forecast">>, <<Str("*"), JStr(weather)>>)>> ELSE <<>>)
          \o (IF time # <<>>
              THEN <<Obj(<<"start", "end">>, <<JStr(<<"8", ":", "00">>), JStr(time)>>)>>
              ELSE <<>>))

\* The info box as the text of the old format
InfoBoxLegacy(weather, time) ==
    Join(NonEmpty(<<IF weather # <<>> THEN <<"Weather", ":", " ">> \o weather ELSE <<>>,
                    IF time # <<>>
                    THEN <<"Time", ":", " ", "8", ":", "00", " ", "->", " ">> \o time
                    ELSE <<>>>>),
         <<"\n">>)

\* lastGeneratedData.infoBox || committedTrackerData.infoBox || '': nothing, the
\* old text format, a JSON text, or an object
InfoBoxes ==
    {Absent}
    \cup {Legacy(InfoBoxLegacy(w, t)) : w \in WeatherTexts \ {<<>>}, t \in TimeTexts}
    \cup {Json(InfoBoxObject(w, t)) : w \in WeatherTexts, t \in TimeTexts}
    \cup {Live(InfoBoxObject(w, t)) : w \in WeatherTexts, t \in TimeTexts}

\* The module's variables and the document as they are.
WeatherNow ==
    WeatherState(weatherContainer, currentWeatherType, currentTimeOfDay, currentHour, body)

\* A call returns and leaves state w, or throws and leaves everything as it was.
WeatherReturn(r, call) ==
    /\ weatherContainer' = r.out.weatherContainer
    /\ currentWeatherType' = r.out.currentWeatherType
    /\ currentTimeOfDay' = r.out.currentTimeOfDay
    /\ currentHour' = r.out.currentHour
    /\ body' = r.out.body
    /\ weatherCall' = IF r.threw THEN "threw" ELSE call
    /\ UNCHANGED <<weatherSettings, infoBoxData, resolveVars, histVars, settingsVars,
                   chatVars, runVars, ctxVars, instrVars, prevVars>>

\* export function updateWeatherEffect()
UpdateWeatherEffect ==
    WeatherReturn(updateWeatherEffect(WeatherNow, weatherSettings, infoBoxData),
                  "updateWeatherEffect")

\* export function initWeatherEffects()
InitWeatherEffects ==
    WeatherReturn(updateWeatherEffect(WeatherNow, weatherSettings, infoBoxData),
                  "initWeatherEffects")

\* export function toggleDynamicWeather(enabled)
ToggleDynamicWeather ==
    \E enabled \in BOOLEAN :
        IF enabled
        THEN WeatherReturn(updateWeatherEffect(WeatherNow, weatherSettings, infoBoxData),
                           "toggleDynamicWeather(true)")
        ELSE WeatherReturn([threw |-> FALSE, out |-> removeWeatherEffect(WeatherNow)],
                           "toggleDynamicWeather(false)")

\* export function cleanupWeatherEffects()
CleanupWeatherEffects ==
    WeatherReturn([threw |-> FALSE, out |-> removeWeatherEffect(WeatherNow)],
                  "cleanupWeatherEffects")

\* The user switches one of the three weather settings.
ChangeWeatherSetting ==
    \E k \in {"enableDynamicWeather", "weatherForeground", "weatherBackground"} :
        /\ weatherSettings' = [weatherSettings EXCEPT ![k] = ~weatherSettings[k]]
        /\ weatherCall' = ""
        /\ UNCHANGED <<infoBoxData, weatherContainer, currentWeatherType, currentTimeOfDay,
                       currentHour, body, resolveVars, histVars, settingsVars,
                       chatVars, runVars, ctxVars, instrVars, prevVars>>

\* A generation or a commit changes the info box.
ChangeInfoBox ==
    \E p \in InfoBoxes \ {infoBoxData} :
        /\ infoBoxData' = p
        /\ weatherCall' = ""
        /\ UNCHANGED <<weatherSettings, weatherContainer, currentWeatherType,
                       currentTimeOfDay, currentHour, body, resolveVars, histVars,
                       settingsVars, chatVars, runVars, ctxVars, instrVars, prevVars>>

WeatherInit ==
    /\ weatherSettings = [enableDynamicWeather |-> FALSE, weatherForeground |-> FALSE,
                          weatherBackground |-> TRUE]
    /\ infoBoxData = Absent
    /\ weatherContainer = JNull
    /\ currentWeatherType = JNull
    /\ currentTimeOfDay = JNull
    /\ currentHour = JNull
    /\ body = <<>>
    /\ weatherCall = ""
    /\ chat = <<>>
    /\ updateDepth = MaxChat
    /\ historyPersistence = NoHistoryPersistence
    /\ settings = MkConfig({"skills"}, {}, FALSE)
    /\ name1 = <<"User">>
    /\ pc = "idle"
    /\ locals = NoLocals
    /\ recentMessages = <<>>
    /\ contextInjectionMap = NewMap
    /\ messages = <<>>
    /\ lastRun = NoRun
    /\ ctxData = Absent
    /\ ctxType = ""
    /\ ctxOut = Ok(<<>>)
    /\ extensionSettings = ExtSettings(FALSE, FALSE, FALSE)
    /\ jsonHelpers = JsonHelpers(<<>>)
    /\ instrArgs = InstrArgs(TRUE, TRUE, TRUE)
    /\ instructions = <<>>
    /\ committedTrackerData = TrackerData(Absent, Absent, Absent)
    /\ promptText = <<>>
    /\ example = <<>>
    /\ field = JNull
    /\ resolved = <<>>
    /\ resolvedHist = <<>>
    /\ histData = NoTrackerData
    /\ histUseAll = FALSE
    /\ histOut = <<>>

WeatherNext ==
    \/ UpdateWeatherEffect
    \/ InitWeatherEffects
    \/ ToggleDynamicWeather
    \/ CleanupWeatherEffects
    \/ ChangeWeatherSetting
    \/ ChangeInfoBox

SpecWeather == WeatherInit /\ [][WeatherNext]_vars

----------------------------------------------------------------------------
(* Properties of the weather effects.  They read the state the call that   *)
(* returned last has left, while the settings and the info box are still   *)
(* those it ran with.                                                      *)

\* updateWeatherEffect has returned, called by name or by initWeatherEffects
\* or toggleDynamicWeather(true).
C28UpdateReturned ==
    weatherCall \in {"updateWeatherEffect", "initWeatherEffects", "toggleDynamicWeather(true)"}
\* The type the current weather parses to.
C28Type == parseWeatherType(getCurrentWeather(infoBoxData).out)
\* The effects that show a weather type.
C28Effects(weatherType) ==
    IF weatherType = Str("sunny")
    THEN {Str("sunshine"), Str("nighttime"), Str("sunrise"), Str("sunset")}
    ELSE {weatherType}
\* The layer of the current settings.
C28Layer == IF weatherSettings.weatherForeground THEN Str("foreground") ELSE Str("background")

\* C28: whenever updateWeatherEffect returns while dynamic weather is enabled,
\* the current weather parses to a type other than 'none', and weatherForeground
\* or weatherBackground is set, a container for that weather type is attached to
\* the document with the layer of the current settings.
C28_EffectShown ==
    ( /\ C28UpdateReturned
      /\ weatherSettings.enableDynamicWeather
      /\ C28Type # Str("none")
      /\ weatherSettings.weatherForeground \/ weatherSettings.weatherBackground )
    => \E i \in 1..Len(body) :
          /\ Get(body[i], "effect") \in C28Effects(C28Type)
          /\ Get(body[i], "layer") = C28Layer

\* Whether the four module variables are all null.
C29AllNull ==
    /\ weatherContainer = JNull
    /\ currentWeatherType = JNull
    /\ currentTimeOfDay = JNull
    /\ currentHour = JNull

\* C29: at most one weather container is attached to the document and it is
\* the one weatherContainer references; currentWeatherType is null exactly when
\* weatherContainer is null; after a call made with dynamic weather disabled,
\* or cleanupWeatherEffects, no container is attached and all the cached state
\* is null.
C29_OneContainer ==
    /\ Len(body) <= 1
    /\ \A i \in 1..Len(body) : body[i] = weatherContainer
    /\ (currentWeatherType = JNull) <=> (weatherContainer = JNull)
    /\ ( \/ weatherCall \in {"cleanupWeatherEffects", "toggleDynamicWeather(false)"}
         \/ C28UpdateReturned /\ ~weatherSettings.enableDynamicWeather )
       => (body = <<>> /\ C29AllNull)

\* A sunshine effect is attached, the one weatherContainer references, and its
\* sun has been moved in place from the hour it was created for to the next.
C29_Witness ==
    /\ weatherCall = "updateWeatherEffect"
    /\ body = <<weatherContainer>>
    /\ Get(weatherContainer, "effect") = Str("sunshine")
    /\ currentWeatherType = Str("sunny")
    /\ currentHour = Num(10)
    /\ Get(weatherContainer, "hour") = Num(10)

====
